---- MODULE Spec2Model ----
(***************************************************************************)
(* Model of the reasoning and dispatch core of the text-mining agent:      *)
(*   - CircuitBreaker and LLMOrchestrator (services/llm_orchestrator.py)   *)
(*   - AnalysisAgent (agents/analysis_agent.py)                            *)
(*   - AnalysisToolRegistry (services/analysis_registry.py)                *)
(*   - the deployment modes and provider gateways (services/llm_providers) *)
(*   - ModelRegistry (services/model_registry.py)                          *)
(*   - TokenBucket (middleware/rate_limit.py)                              *)
(*   - the agent endpoints and AgentStore (api/endpoints/agent.py)         *)
(*   - DeadLetterQueue (services/dlq.py)                                   *)
(* The specifications share the variables:                                 *)
(*   Spec       one AnalysisAgent driving its own LLMOrchestrator          *)
(*   SpecOrch   direct callers of one LLMOrchestrator                      *)
(*   SpecSelect select_model applied to drawn breaker maps                 *)
(*   SpecBreaker record_failure / record_success on the breakers over time *)
(*   SpecRegistry register / get / list_tools / execute on one registry    *)
(*   SpecExplore the EXPLORE phase of a resumed agent on long tool plans   *)
(*   SpecParse  the agent reading the text of the model responses          *)
(*   SpecLive   Spec under weak fairness of every step                     *)
(*   SpecProcess the orchestrators of one process under concurrent tasks   *)
(*   SpecModels one ModelRegistry: construction, resolve, supported models *)
(*   SpecBucket one TokenBucket of the rate limiter under consume calls    *)
(*   SpecEndpoints the start and approve endpoints over the AgentStore     *)
(*   SpecDlq    the dead letter queue under enqueue, dequeue and peek      *)
(***************************************************************************)
EXTENDS Integers, Sequences, FiniteSets, TLC

VARIABLES TASK_MODEL_MAP, circuit_breakers, now, inv, invokes, selected, faults,
          state, hitl_mode, pending_approval, insights, logs,
          context, frame, ret, trace, call, ops,
          streak, llm_deployment_mode, _tools, registered, reg, reading, process,
          model_registry, bucket, agent_store, dlq

agentVars == <<state, hitl_mode, pending_approval, insights, logs,
               context, frame, ret, trace, call, ops>>
\* the tool registry: its map, the register calls made, the last call;
\* reading, the last model response a phase read as text (history); and
\* process, the orchestrators of one server process and the calls on them
\* the objects beside the agent: one ModelRegistry, one TokenBucket, the
\* agent store behind the endpoints, the dead letter queue
sideVars == <<model_registry, bucket, agent_store, dlq>>

regVars == <<_tools, registered, reg, reading, process, sideVars>>

vars == <<TASK_MODEL_MAP, circuit_breakers, now, inv, invokes, selected, faults,
          state, hitl_mode, pending_approval, insights, logs,
          context, frame, ret, trace, call, ops,
          streak, llm_deployment_mode, _tools, registered, reg, reading, process,
          model_registry, bucket, agent_store, dlq>>

(***************************************************************************)
(* Bounds of the model.                                                    *)
(***************************************************************************)
MaxNow == 61

MaxInvokes == 4

MaxOps == 2

MaxFaults == 2

MaxFailures == 4

(***************************************************************************)
(* Enumerations and tables of llm_orchestrator.py.                         *)
(***************************************************************************)
TaskType == {"labeling", "summarization", "batch_classification",
             "pii_detection", "translation", "vision", "confidential", "chat"}

DataSensitivity == {"public", "internal", "confidential", "restricted"}

RESTRICTED == "restricted"

INTERNAL == "internal"

LocalModel == "llama-4-405b"

DefaultCandidates == <<"claude-sonnet-4-5-20250929">>

\* the default of the field TASK_MODEL_MAP (lines 76-87)
DefaultTaskModelMap ==
  [t \in TaskType |->
     CASE t = "labeling" -> <<"claude-opus-4-6", "gpt-5.2", "gemini-3.0-pro">>
       [] t = "summarization" -> <<"claude-opus-4-6", "gemini-3.0-pro", "gpt-5.2">>
       [] t = "batch_classification" ->
            <<"claude-sonnet-4-5-20250929", "gpt-5-mini", "gemini-3.0-flash">>
       [] t = "pii_detection" -> <<"gpt-5-mini", "claude-sonnet-4-5-20250929">>
       [] t = "translation" -> <<"gpt-5.2", "claude-opus-4-6", "gemini-3.0-pro">>
       [] t = "vision" -> <<"gemini-3.0-pro", "gpt-5.2", "claude-opus-4-6">>
       [] t = "confidential" -> <<"llama-4-405b">>
       [] t = "chat" -> <<"claude-sonnet-4-5-20250929", "gpt-5-mini">>]

Models == {"claude-opus-4-6", "gpt-5.2", "gemini-3.0-pro",
           "claude-sonnet-4-5-20250929", "gpt-5-mini", "gemini-3.0-flash",
           "llama-4-405b"}

\* the absent model (Python None) returned by _get_fallback
NoModel == "none"

\* select_model raises instead of returning a model
IndexError == "IndexError"

(***************************************************************************)
(* CircuitBreaker.                                                         *)
(***************************************************************************)
failure_threshold == 3

Cooldown == 60

\* last_failure = None
NoTime == -1

CircuitBreaker == [failure_count |-> 0, is_open |-> FALSE, last_failure |-> NoTime]

\* mutant: the breaker opens one failure late
record_failure_late_open(cb, t) ==
  LET c == cb.failure_count + 1
  IN  [failure_count |-> c,
       last_failure |-> t,
       is_open |-> IF c > failure_threshold THEN TRUE ELSE cb.is_open]

\* mutant: a failure does not refresh last_failure once it is set
record_failure_keeps_time(cb, t) ==
  LET c == cb.failure_count + 1
  IN  [failure_count |-> c,
       last_failure |-> IF cb.last_failure = NoTime THEN t ELSE cb.last_failure,
       is_open |-> IF c >= failure_threshold THEN TRUE ELSE cb.is_open]

\* record_failure at time t (lines 47-52)
record_failure(cb, t) ==
  LET c == cb.failure_count + 1
  IN  [failure_count |-> c,
       last_failure |-> t,
       is_open |-> IF c >= failure_threshold THEN TRUE ELSE cb.is_open]

\* mutant: the failure count is reset, the breaker is left open
record_success_keeps_open(cb) ==
  [cb EXCEPT !.failure_count = 0]

record_success(cb) ==
  [cb EXCEPT !.failure_count = 0, !.is_open = FALSE]

\* mutant: the breaker lets calls through at exactly the cooldown
can_proceed_at_cooldown(cb, t) ==
  IF ~cb.is_open THEN TRUE
  ELSE IF cb.last_failure # NoTime /\ t - cb.last_failure >= Cooldown THEN TRUE
  ELSE FALSE

\* can_proceed at time t (lines 58-66)
can_proceed(cb, t) ==
  IF ~cb.is_open THEN TRUE
  ELSE IF cb.last_failure # NoTime /\ t - cb.last_failure > Cooldown THEN TRUE
  ELSE FALSE

(***************************************************************************)
(* Deployment modes, provider gateways and the model registry.             *)
(***************************************************************************)
\* LLMDeploymentMode (config.py lines 22-33)
LLMDeploymentMode == {"direct", "aws_bedrock", "azure_ai_foundry",
                      "gcp_vertex_ai", "gemini_direct", "local"}

\* settings.llm_deployment_mode (config.py line 107)
DefaultMode == "direct"

\* the prefix of a model name that startswith() tests
Family(m) ==
  CASE m \in {"claude-opus-4-6", "claude-sonnet-4-5-20250929"} -> "claude"
    [] m \in {"gpt-5.2", "gpt-5-mini"} -> "gpt"
    [] m \in {"gemini-3.0-pro", "gemini-3.0-flash"} -> "gemini"
    [] m = "llama-4-405b" -> "llama"
    [] OTHER -> "other"

\* get_llm_provider(): the provider of a mode; a mode the factory does not
\* name gets the direct provider
get_llm_provider(mode) ==
  IF mode \in {"aws_bedrock", "azure_ai_foundry", "gcp_vertex_ai", "local"}
  THEN mode ELSE "direct"

\* supports_model of each provider
supports_model(provider, logical_model) ==
  CASE provider = "aws_bedrock" -> Family(logical_model) \in {"claude", "llama"}
    [] provider = "azure_ai_foundry" -> Family(logical_model) \in {"claude", "gpt"}
    [] provider = "gcp_vertex_ai" -> Family(logical_model) \in {"gemini", "claude"}
    [] provider = "local" -> Family(logical_model) \in {"llama"}
    [] OTHER -> Family(logical_model) \in {"claude", "gpt", "gemini"}

\* Python None
None == "None"

\* ModelRegistry.resolve on DEFAULT_MODEL_MAPPINGS
resolve(logical_model, deployment_mode) ==
  CASE deployment_mode = "direct" ->
         IF Family(logical_model) \in {"claude", "gpt", "gemini"}
         THEN logical_model ELSE None
    [] deployment_mode = "aws_bedrock" ->
         CASE logical_model = "claude-opus-4-6" -> "anthropic.claude-opus-4-6-v1:0"
           [] logical_model = "claude-sonnet-4-5-20250929" ->
                "anthropic.claude-sonnet-4-5-20250929-v1:0"
           [] logical_model = "llama-4-405b" -> "meta.llama-4-405b-v1:0"
           [] OTHER -> None
    [] deployment_mode = "azure_ai_foundry" ->
         CASE logical_model = "gpt-5.2" -> "gpt-5-2"
           [] Family(logical_model) \in {"claude", "gpt"} -> logical_model
           [] OTHER -> None
    [] deployment_mode = "gcp_vertex_ai" ->
         CASE logical_model = "claude-opus-4-6" -> "claude-opus-4-6@20250514"
           [] logical_model = "claude-sonnet-4-5-20250929" ->
                "claude-sonnet-4-5-20250929@20250929"
           [] Family(logical_model) = "gemini" -> logical_model
           [] OTHER -> None
    [] deployment_mode = "local" ->
         IF logical_model = "llama-4-405b" THEN logical_model ELSE None
    [] OTHER -> None

\* _call_model: the endpoint a model name is sent to and the model id sent;
\* the _call_anthropic, _call_openai and _call_google calls are the vendors'
\* direct APIs, _call_local is the local Ollama endpoint
_call_model(model) ==
  IF Family(model) \in {"claude", "gpt", "gemini"}
  THEN [gateway |-> "direct", model_id |-> model]
  ELSE IF Family(model) = "llama"
  THEN [gateway |-> "local", model_id |-> model]
  ELSE [gateway |-> "ValueError", model_id |-> model]

(***************************************************************************)
(* LLMOrchestrator: pure parts.                                            *)
(***************************************************************************)
\* mutant: a new breaker record replaces the one the map holds
setdefault_fresh(cbs, m) ==
  IF m \in DOMAIN cbs THEN [cbs EXCEPT ![m] = CircuitBreaker]
  ELSE cbs @@ (m :> CircuitBreaker)

\* circuit_breakers.setdefault(model, CircuitBreaker())
setdefault(cbs, m) ==
  IF m \in DOMAIN cbs THEN cbs ELSE cbs @@ (m :> CircuitBreaker)

\* cb = circuit_breakers.get(m); cb is None or cb.can_proceed()
Available(cbs, t, m) ==
  IF m \notin DOMAIN cbs THEN TRUE ELSE can_proceed(cbs[m], t)

Candidates(task_type) ==
  IF task_type \in DOMAIN TASK_MODEL_MAP THEN TASK_MODEL_MAP[task_type]
  ELSE DefaultCandidates

RECURSIVE FirstAvailable(_, _, _, _)
\* the for loop of select_model from index i on; NoModel when it falls through
FirstAvailable(cbs, t, cands, i) ==
  IF i > Len(cands) THEN NoModel
  ELSE IF Available(cbs, t, cands[i]) THEN cands[i]
  ELSE FirstAvailable(cbs, t, cands, i + 1)

\* mutant: the restricted route is taken only while the local model's breaker
\* can proceed
select_model_local_breaker(cbs, t, task_type, sensitivity) ==
  IF sensitivity = RESTRICTED /\ Available(cbs, t, LocalModel) THEN LocalModel
  ELSE LET cands == Candidates(task_type)
           m == FirstAvailable(cbs, t, cands, 1)
       IN  IF m # NoModel THEN m
           ELSE IF cands = <<>> THEN IndexError
           ELSE cands[1]

\* mutant: models without a breaker record are passed over
select_model_needs_record(cbs, t, task_type, sensitivity) ==
  IF sensitivity = RESTRICTED THEN LocalModel
  ELSE LET cands == Candidates(task_type)
           m == FirstAvailable([x \in DOMAIN cbs |-> cbs[x]] @@
                                 [x \in Models |-> [CircuitBreaker EXCEPT
                                                       !.is_open = TRUE]],
                               t, cands, 1)
       IN  IF m # NoModel THEN m
           ELSE IF cands = <<>> THEN IndexError
           ELSE cands[1]

\* select_model (lines 89-108): restricted goes to the local model; otherwise
\* the first candidate whose breaker is absent or can proceed, else the first
select_model(cbs, t, task_type, sensitivity) ==
  IF sensitivity = RESTRICTED THEN LocalModel
  ELSE LET cands == Candidates(task_type)
           m == FirstAvailable(cbs, t, cands, 1)
       IN  IF m # NoModel THEN m
           ELSE IF cands = <<>> THEN IndexError   \* candidates[0] (line 108)
           ELSE cands[1]

RECURSIVE FirstOther(_, _, _, _, _)
\* the for loop of _get_fallback from index i on
FirstOther(cbs, t, cands, failed, i) ==
  IF i > Len(cands) THEN NoModel
  ELSE IF cands[i] # failed /\ Available(cbs, t, cands[i]) THEN cands[i]
  ELSE FirstOther(cbs, t, cands, failed, i + 1)

\* mutant: the fallback is the first other candidate, whatever its breaker
_get_fallback_any_other(cbs, t, failed_model, task_type) ==
  LET cands == IF task_type \in DOMAIN TASK_MODEL_MAP
               THEN TASK_MODEL_MAP[task_type] ELSE <<>>
      others == SelectSeq(cands, LAMBDA m : m # failed_model)
  IN  IF others = <<>> THEN NoModel ELSE others[1]

_get_fallback(cbs, t, failed_model, task_type) ==
  LET cands == IF task_type \in DOMAIN TASK_MODEL_MAP
               THEN TASK_MODEL_MAP[task_type] ELSE <<>>
  IN  FirstOther(cbs, t, cands, failed_model, 1)

(***************************************************************************)
(* LLMOrchestrator.invoke as a call in flight.  inv.pc is the await the    *)
(* call is suspended at:                                                   *)
(*   "primary"   _call_model(model)        line 125                        *)
(*   "track"     gateway.track_usage       line 129                        *)
(*   "fallback"  _call_model(fallback)     line 144                        *)
(*   "returned" / "raised"  the call has ended, its caller has not resumed *)
(*   "none"      no call in flight                                         *)
(* The other fields record what the call did: calls the models called, in  *)
(* order; outcomes the outcome of each finished model call; recorded the   *)
(* breaker recordings <<model, "failure" | "success">>; tracked the models *)
(* whose usage was tracked; result the model whose content is returned.    *)
(***************************************************************************)
NoInv == [pc |-> "none", caller |-> "none", task_type |-> "none",
          sensitivity |-> "none", model |-> NoModel, fallback |-> NoModel,
          calls |-> <<>>, outcomes |-> <<>>, recorded |-> <<>>,
          tracked |-> <<>>, result |-> NoModel, sent |-> <<>>]

\* lines 119-125: select the model and start its call
invoke(caller, task_type, sensitivity) ==
  LET model == select_model(circuit_breakers, now, task_type, sensitivity)
  IN  [NoInv EXCEPT !.pc = "primary", !.caller = caller,
                    !.task_type = task_type, !.sensitivity = sensitivity,
                    !.model = model, !.calls = <<model>>,
                    !.sent = <<_call_model(model)>>]

\* lines 131-133: cb = setdefault(model); cb.record_success(); return result
InvokeSuccess(i) ==
  /\ circuit_breakers' =
       [setdefault(circuit_breakers, i.model) EXCEPT
          ![i.model] = record_success(setdefault(circuit_breakers, i.model)[i.model])]
  /\ streak' = [streak EXCEPT ![i.model] = 0]
  /\ inv' = [i EXCEPT !.pc = "returned", !.result = i.model,
                      !.recorded = Append(i.recorded, <<i.model, "success">>)]

\* lines 135-145: the except branch of invoke
InvokeExcept(i) ==
  LET cbs == [setdefault(circuit_breakers, i.model) EXCEPT
                ![i.model] = record_failure(setdefault(circuit_breakers, i.model)[i.model], now)]
      fallback == _get_fallback(cbs, now, i.model, i.task_type)
      j == [i EXCEPT !.recorded = Append(i.recorded, <<i.model, "failure">>)]
  IN  /\ circuit_breakers' = cbs
      /\ streak' = [streak EXCEPT ![i.model] = @ + 1]
      /\ IF fallback # NoModel /\ fallback # i.model
         THEN inv' = [j EXCEPT !.pc = "fallback", !.fallback = fallback,
                               !.calls = Append(i.calls, fallback),
                               !.sent = Append(i.sent, _call_model(fallback))]
         ELSE inv' = [j EXCEPT !.pc = "raised"]

\* an external call made for the agent fails: at most MaxFaults of them do
\* (the calls direct callers make are bounded by MaxInvokes)
Fault ==
  IF inv.caller = "agent"
  THEN faults < MaxFaults /\ faults' = faults + 1
  ELSE faults' = faults

\* the call of the selected model returns its content (line 125); the usage
\* tracker is called next (line 129)
PrimaryOk ==
  /\ inv.pc = "primary"
  /\ inv' = [inv EXCEPT !.pc = "track", !.outcomes = Append(inv.outcomes, "ok")]
  /\ UNCHANGED <<TASK_MODEL_MAP, llm_deployment_mode, regVars,
                 circuit_breakers, streak, now, invokes, selected, faults>>
  /\ UNCHANGED agentVars

\* the call of the selected model raises (line 125 -> 135)
PrimaryFail ==
  /\ inv.pc = "primary"
  /\ Fault
  /\ InvokeExcept([inv EXCEPT !.outcomes = Append(inv.outcomes, "fail")])
  /\ UNCHANGED <<TASK_MODEL_MAP, llm_deployment_mode, regVars, now, invokes, selected>>
  /\ UNCHANGED agentVars

\* gateway.track_usage returns (line 129), then lines 131-133
TrackOk ==
  /\ inv.pc = "track"
  /\ InvokeSuccess([inv EXCEPT !.tracked = Append(inv.tracked, inv.model)])
  /\ UNCHANGED <<TASK_MODEL_MAP, llm_deployment_mode, regVars,
                 now, invokes, selected, faults>>
  /\ UNCHANGED agentVars

\* gateway.track_usage raises inside the try block (line 129 -> 135)
TrackFail ==
  /\ inv.pc = "track"
  /\ Fault
  /\ InvokeExcept(inv)
  /\ UNCHANGED <<TASK_MODEL_MAP, llm_deployment_mode, regVars, now, invokes, selected>>
  /\ UNCHANGED agentVars

\* the fallback call returns; its content is returned as is (line 144)
FallbackOk ==
  /\ inv.pc = "fallback"
  /\ inv' = [inv EXCEPT !.pc = "returned", !.result = inv.fallback,
                        !.outcomes = Append(inv.outcomes, "ok")]
  /\ UNCHANGED <<TASK_MODEL_MAP, llm_deployment_mode, regVars,
                 circuit_breakers, streak, now, invokes, selected, faults>>
  /\ UNCHANGED agentVars

\* the fallback call raises out of the except branch (line 144)
FallbackFail ==
  /\ inv.pc = "fallback"
  /\ Fault
  /\ inv' = [inv EXCEPT !.pc = "raised", !.outcomes = Append(inv.outcomes, "fail")]
  /\ UNCHANGED <<TASK_MODEL_MAP, llm_deployment_mode, regVars,
                 circuit_breakers, streak, now, invokes, selected>>
  /\ UNCHANGED agentVars

\* time passes (datetime.now(UTC) read by record_failure and can_proceed)
TickSteps == {60, 61}

Tick ==
  /\ \E d \in TickSteps :
       /\ now + d <= MaxNow
       /\ now' = now + d
  /\ UNCHANGED <<TASK_MODEL_MAP, llm_deployment_mode, regVars,
                 circuit_breakers, streak, inv, invokes, selected, faults>>
  /\ UNCHANGED agentVars

(***************************************************************************)
(* Direct callers of the orchestrator (tools, endpoints).                  *)
(***************************************************************************)
\* the task types direct callers ask for
InvokeTasks == {"labeling", "translation", "confidential"}

\* a caller awaits invoke(prompt, task_type, sensitivity)
Invoke ==
  /\ inv.pc = "none"
  /\ invokes < MaxInvokes
  /\ \E task_type \in InvokeTasks, sensitivity \in DataSensitivity :
       inv' = invoke("direct", task_type, sensitivity)
  /\ invokes' = invokes + 1
  /\ UNCHANGED <<TASK_MODEL_MAP, llm_deployment_mode, regVars,
                 circuit_breakers, streak, now, selected, faults>>
  /\ UNCHANGED agentVars

\* the direct caller resumes with the result or the exception
InvokeEnd ==
  /\ inv.pc \in {"returned", "raised"}
  /\ inv.caller = "direct"
  /\ inv' = NoInv
  /\ UNCHANGED <<TASK_MODEL_MAP, llm_deployment_mode, regVars,
                 circuit_breakers, streak, now, invokes, selected, faults>>
  /\ UNCHANGED agentVars

NoSelection == [task_type |-> "none", sensitivity |-> "none", model |-> NoModel]

\* a caller calls select_model(task_type, sensitivity) on its own; the
\* answer to its first call is kept in selected
SelectModel ==
  /\ inv.pc = "none"
  /\ selected = NoSelection
  /\ \E task_type \in TaskType, sensitivity \in DataSensitivity :
       selected' = [task_type |-> task_type, sensitivity |-> sensitivity,
                    model |-> select_model(circuit_breakers, now, task_type, sensitivity)]
  /\ UNCHANGED <<TASK_MODEL_MAP, llm_deployment_mode, regVars,
                 circuit_breakers, streak, now, inv, invokes, faults>>
  /\ UNCHANGED agentVars

(***************************************************************************)
(* AnalysisAgent.  The agent's fields are the variables state, hitl_mode,  *)
(* pending_approval, insights and logs; context is the AgentContext the    *)
(* caller passed; frame holds the locals of the run() or                   *)
(* resume_after_approval() call in progress (frame.pc is the await it is   *)
(* suspended at); ret is how the last call ended; trace lists the          *)
(* Orchestrator and Registry calls made since the last call was entered.   *)
(* The steps of a call are functions on the record Me of these values.     *)
(***************************************************************************)
HITLMode == {"full_auto", "semi_auto", "guided"}

AgentState == {"idle", "running", "awaiting_approval", "completed", "error"}

\* pending_approval = None
NoApproval == [phase |-> "none", hypotheses |-> <<>>, message |-> "none"]

\* plan and base are history: the tool plan as parsed (before line 238) and
\* the length of context.tool_results when the tool loop of EXPLORE began
NoFrame == [op |-> "none", pc |-> "none", hypotheses |-> <<>>, tool_calls |-> <<>>,
            plan |-> <<>>, base |-> 0]

NoRet == [op |-> "none", kind |-> "none", insights |-> <<>>]

\* the last call a caller made: the operation, the state it found and the
\* approved_hypotheses it passed
NoCall == [op |-> "none", from |-> "none", approved |-> <<>>]

\* AgentContext(dataset_id, objective, texts, db) as the callers build it
\* (api/endpoints/agent.py, services/pipeline.py): with a database session
NewContext == [db |-> TRUE, observations |-> <<>>, hypotheses |-> <<>>,
               tool_results |-> <<>>]

Me == [state |-> state, pending_approval |-> pending_approval,
       insights |-> insights, logs |-> logs, context |-> context,
       frame |-> frame, ret |-> ret, trace |-> trace, call |-> call,
       inv |-> inv]

Become(a) ==
  /\ state' = a.state
  /\ pending_approval' = a.pending_approval
  /\ insights' = a.insights
  /\ logs' = a.logs
  /\ context' = a.context
  /\ frame' = a.frame
  /\ ret' = a.ret
  /\ trace' = a.trace
  /\ call' = a.call
  /\ inv' = a.inv

\* self._log(phase, ...): one entry appended
_log(a, phase) == [a EXCEPT !.logs = Append(@, phase)]

\* await self.llm.invoke(prompt, task_type): the call of the phase is started
llm_invoke(a, phase, task_type) ==
  [a EXCEPT !.inv = invoke("agent", task_type, INTERNAL),
            !.trace = Append(@, phase),
            !.frame.pc = phase]

\* an exception leaves run(): lines 118-121 set the state and re-raise
run_except(a) ==
  [a EXCEPT !.state = "error",
            !.ret = [op |-> "run", kind |-> "raised", insights |-> <<>>],
            !.frame = NoFrame, !.inv = NoInv]

\* an exception leaves resume_after_approval(): lines 123-127 have no handler
resume_except(a) ==
  [a EXCEPT !.ret = [op |-> "resume", kind |-> "raised", insights |-> <<>>],
            !.frame = NoFrame, !.inv = NoInv]

\* an exception escapes the phase in progress
Raise(a) == IF a.frame.op = "run" THEN run_except(a) ELSE resume_except(a)

\* the call in progress returns the list `result`
Return(a, result) ==
  [a EXCEPT !.ret = [op |-> a.frame.op, kind |-> "returned", insights |-> result],
            !.frame = NoFrame, !.inv = NoInv]

(***************************************************************************)
(* Model responses.  A response is parsed by json.loads; what the phase    *)
(* does with it depends on its shape only.                                 *)
(***************************************************************************)
\* OBSERVE: a JSON list, text that is no JSON, a JSON object
ObserveResponses == {"list", "nonjson", "object"}

\* HYPOTHESIZE: a JSON list, text that is no JSON
HypothesizeResponses == {"list", "nonjson"}

ParsedObservations == <<"o1", "o2">>

ParsedHypotheses == <<"h1", "h2">>

\* [response[:200]]
Degraded == <<"raw">>

\* what callers approve
ApprovedLists == {<<>>, <<"h1">>}

Call(tool_name, parameters) == [tool_name |-> tool_name, parameters |-> parameters]

\* EXPLORE: tool plans; parameters "map" is a JSON object of tool arguments,
\* "bad" one that **params cannot take (no mapping, or a reserved name)
Plans == {<<>>,
          <<Call("cluster_analysis", "map")>>,
          <<Call("cluster_analysis", "map"), Call("cluster_analysis", "map"),
            Call("unknown_tool", "map")>>,
          <<Call("sentiment_analysis", "bad")>>}

\* the fallback plan of lines 233-236
FallbackPlan == <<Call("cluster_analysis", "map"), Call("sentiment_analysis", "map")>>

MaxToolCalls == 5

\* VERIFY: a JSON list of objects, text that is no JSON, a list of non-objects
VerifyResponses == {"list", "nonjson", "badshape"}

\* SYNTHESIZE: lists of insights, each with its grounding_score in tenths
\* (<<>> when the key is missing)
InsightLists == {<<>>, << <<17>>, <<-3>>, <<5>>, <<>> >>,
                 << <<0>>, <<10>>, <<11>>, <<-1>>, <<7>> >>}

DefaultScore == 5

\* mutant: the score is bounded from below only
ClampScore_floor_only(raw) ==
  LET x == IF raw = <<>> THEN DefaultScore ELSE raw[1]
  IN  IF x > 0 THEN x ELSE 0

\* min(1.0, max(0.0, i.get("grounding_score", 0.5))), in tenths
ClampScore(raw) ==
  LET x == IF raw = <<>> THEN DefaultScore ELSE raw[1]
      lo == IF x > 0 THEN x ELSE 0
  IN  IF lo < 10 THEN lo ELSE 10

AgentInsight(kind, score) == [kind |-> kind, grounding_score |-> score]

RECURSIVE Dedup_adjacent(_, _)
\* mutant: only a call that repeats the name just before it is dropped
Dedup_adjacent(calls, seen_tools) ==
  IF calls = <<>> THEN <<>>
  ELSE IF Head(calls).tool_name \in seen_tools
       THEN Dedup_adjacent(Tail(calls), seen_tools)
  ELSE <<Head(calls)>> \o Dedup_adjacent(Tail(calls), {Head(calls).tool_name})

RECURSIVE Dedup(_, _)
\* lines 239-245: first occurrence of each tool name
Dedup(calls, seen_tools) ==
  IF calls = <<>> THEN <<>>
  ELSE IF Head(calls).tool_name \in seen_tools THEN Dedup(Tail(calls), seen_tools)
  ELSE <<Head(calls)>> \o Dedup(Tail(calls), seen_tools \cup {Head(calls).tool_name})

\* unique_calls[:5]
FirstCalls(calls) ==
  IF Len(calls) <= MaxToolCalls THEN calls ELSE SubSeq(calls, 1, MaxToolCalls)

Response(shape, items) == [shape |-> shape, items |-> items]

PlanResponses ==
  {Response("list", plan) : plan \in Plans}
    \cup {Response("nonjson", <<>>), Response("badshape", <<>>)}

\* long plans: 8 calls of which 3 repeat an earlier name; 8 calls with 7
\* distinct names, one entry without tool_name (call.get gives "")
LongPlans ==
  {<<Call("cluster_analysis", "map"), Call("sentiment_analysis", "map"),
     Call("cluster_analysis", "map"), Call("cooccurrence_analysis", "map"),
     Call("sentiment_analysis", "map"), Call("causal_chain_analysis", "map"),
     Call("cooccurrence_analysis", "map"), Call("contradiction_detection", "map")>>,
   <<Call("cluster_analysis", "map"), Call("cluster_analysis", "map"),
     Call("", "map"), Call("sentiment_analysis", "map"),
     Call("cooccurrence_analysis", "map"), Call("causal_chain_analysis", "map"),
     Call("contradiction_detection", "map"), Call("actionability_scoring", "map")>>}

LongPlanResponses ==
  {Response("list", plan) : plan \in LongPlans}
    \cup {Response("nonjson", <<>>), Response("badshape", <<>>)}

SynthesizeResponses ==
  {Response("list", l) : l \in InsightLists}
    \cup {Response("nonjson", <<>>), Response("badshape", <<>>)}

(***************************************************************************)
(* The phases, each cut at its awaits.                                     *)
(***************************************************************************)
\* _observe up to its model call (lines 131-154)
start_observe(a) == llm_invoke(_log(a, "observe"), "observe", "labeling")

\* _hypothesize up to its model call (lines 166-178)
start_hypothesize(a) == llm_invoke(_log(a, "hypothesize"), "hypothesize", "labeling")

\* _explore_with_tools up to its model call (lines 204-226)
start_explore(a, hypotheses) ==
  llm_invoke(_log([a EXCEPT !.frame.hypotheses = hypotheses], "explore"),
             "explore", "labeling")

\* _verify up to its model call (lines 317-352)
start_verify(a) == llm_invoke(_log(a, "verify"), "verify", "labeling")

\* _synthesize up to its model call (lines 385-422)
start_synthesize(a) == llm_invoke(_log(a, "synthesize"), "synthesize", "summarization")

\* run(context) up to the first await (lines 95-100)
run(a, ctx) ==
  start_observe([a EXCEPT !.state = "running", !.context = ctx,
                          !.frame = [NoFrame EXCEPT !.op = "run"],
                          !.ret = NoRet, !.trace = <<>>])

\* mutant: the hypotheses held for approval are explored, not the approved
resume_with_pending(a, ctx, approved_hypotheses) ==
  start_explore([a EXCEPT !.state = "running", !.pending_approval = NoApproval,
                          !.context = ctx,
                          !.frame = [NoFrame EXCEPT !.op = "resume"],
                          !.ret = NoRet, !.trace = <<>>],
                a.pending_approval.hypotheses)

\* resume_after_approval(context, approved_hypotheses) up to the first await
\* (lines 125-127, 192)
resume_after_approval(a, ctx, approved_hypotheses) ==
  start_explore([a EXCEPT !.state = "running", !.pending_approval = NoApproval,
                          !.context = ctx,
                          !.frame = [NoFrame EXCEPT !.op = "resume"],
                          !.ret = NoRet, !.trace = <<>>],
                approved_hypotheses)

\* mutant: guided runs are not held
NeedsApproval_semi_only(mode) == mode = "semi_auto"

\* HITL gate of run (line 106)
NeedsApproval(mode) == mode \in {"semi_auto", "guided"}

\* _observe after its model call returned `response` (lines 155-162), then
\* line 103
observe_end(a, response) ==
  IF response = "object"
  THEN \* observations[:3] raises on a dict (line 161)
       Raise([a EXCEPT !.context.observations = <<"object">>])
  ELSE LET observations == IF response = "list" THEN ParsedObservations ELSE Degraded
       IN  start_hypothesize(
             _log([a EXCEPT !.context.observations = observations], "observe"))

\* _hypothesize after its model call returned (lines 179-186), then lines
\* 106-116 of run
hypothesize_end(a, response, mode) ==
  LET hypotheses == IF response = "list" THEN ParsedHypotheses ELSE Degraded
      b == _log([a EXCEPT !.context.hypotheses = hypotheses], "hypothesize")
  IN  IF NeedsApproval(mode)
      THEN Return([b EXCEPT !.state = "awaiting_approval",
                            !.pending_approval =
                               [phase |-> "hypothesize", hypotheses |-> hypotheses,
                                message |-> "approve"]],
                  <<>>)
      ELSE start_explore(b, hypotheses)

\* the tool loop at the head of frame.tool_calls (lines 250-265), or the
\* return of _explore_with_tools into _verify (lines 290, 195)
begin_call(a) ==
  IF a.frame.tool_calls = <<>> THEN start_verify(a)
  ELSE LET b == _log(a, "explore")
       IN  IF Head(a.frame.tool_calls).parameters = "bad"
           THEN Raise(b)   \* **params raises TypeError (line 260)
           ELSE [b EXCEPT !.frame.pc = "execute",
                          !.trace = Append(@, "execute"),
                          !.inv = NoInv]

\* _explore_with_tools after its model call (lines 227-246); planned is
\* FALSE when the model call raised or its response was no JSON (line 230)
explore_end(a, planned, response) ==
  IF planned /\ response.shape = "badshape"
  THEN Raise(a)   \* call.get raises on a non-object entry (line 242)
  ELSE LET tool_calls == IF planned /\ response.shape = "list"
                         THEN response.items ELSE FallbackPlan
       IN  begin_call([a EXCEPT !.frame.tool_calls =
                                   FirstCalls(Dedup(tool_calls, {})),
                                 !.frame.plan = tool_calls,
                                 !.frame.base = Len(a.context.tool_results)])

\* mutant: the completion of a tool call is not logged
after_call_unlogged(a) ==
  begin_call([a EXCEPT !.frame.tool_calls = Tail(@)])

\* lines 272-288 for the call at the head, then the next iteration
after_call(a) ==
  begin_call(_log([a EXCEPT !.frame.tool_calls = Tail(@)], "explore"))

\* mutant: the result of a failed call is not appended
execute_end_drop_failed(a, success) ==
  LET result == [tool_name |-> Head(a.frame.tool_calls).tool_name,
                 success |-> success]
      b == [a EXCEPT !.context.tool_results = Append(@, result)]
  IN  IF success /\ a.context.db
      THEN [b EXCEPT !.frame.pc = "save"]
      ELSE IF success THEN after_call(b) ELSE after_call(a)

\* mutant: a failed result ends the tool loop
execute_end_stop_on_failure(a, success) ==
  LET result == [tool_name |-> Head(a.frame.tool_calls).tool_name,
                 success |-> success]
      b == [a EXCEPT !.context.tool_results = Append(@, result)]
  IN  IF success /\ a.context.db
      THEN [b EXCEPT !.frame.pc = "save"]
      ELSE IF success THEN after_call(b)
      ELSE start_verify(_log([b EXCEPT !.frame.tool_calls = <<>>], "explore"))

\* analysis_registry.execute returned a ToolResult (lines 260-270)
execute_end(a, success) ==
  LET result == [tool_name |-> Head(a.frame.tool_calls).tool_name,
                 success |-> success]
      b == [a EXCEPT !.context.tool_results = Append(@, result)]
  IN  IF success /\ a.context.db
      THEN [b EXCEPT !.frame.pc = "save"]
      ELSE after_call(b)

\* mutant: the tool loop does not go on after a save
save_end_stuck(a, saved) == a

\* _save_tool_result ended (line 270): db.flush() may raise
save_end(a, saved) == IF saved THEN after_call(a) ELSE Raise(a)

\* _verify after its model call (lines 353-376), then line 198; a failed
\* call or a response that is no JSON gives the default verdicts
verify_end(a, parsed, response) ==
  IF parsed /\ response = "badshape"
  THEN Raise(a)   \* v.get raises on a non-object entry (line 372)
  ELSE start_synthesize(_log(a, "verify"))

\* _synthesize after its model call returned (lines 424-448)
synthesize_end(a, response) ==
  IF response.shape = "badshape"
  THEN Raise(a)   \* i.get raises AttributeError, not caught by line 436
  ELSE LET new == IF response.shape = "list"
                  THEN [k \in 1..Len(response.items) |->
                          AgentInsight("parsed", ClampScore(response.items[k]))]
                  ELSE <<AgentInsight("default", DefaultScore)>>
           b == _log([a EXCEPT !.insights = new, !.state = "completed"],
                     "synthesize")
       IN  Return(b, new)

(***************************************************************************)
(* Model responses as text.  A text is a sequence of pieces: "bq" a        *)
(* backquote, "j" one of the letters j, s, o, n, " " white space, "x" other*)
(* text, "[[" brackets nested deeper than the recursion limit, and whole   *)
(* JSON values: "[{}]" a list of objects, "[1]" a list of numbers, "{}" an *)
(* object, "1" a number.                                                   *)
(***************************************************************************)
Whitespace == {" "}

\* the characters of the fence opening a json block (three backquotes and
\* the word json), and of the bare fence
FenceJson == {"bq", "j"}

Fence == {"bq"}

JsonValues == {"[{}]", "[1]", "{}", "1"}

\* responses of the model: prose, nothing, a fenced list, a bare list, "json"
\* before a number, deep nesting, an object, a list of numbers
Texts ==
  {<<"x">>,
   <<>>,
   <<"bq", "j", " ", "[{}]", " ", "bq">>,
   <<"[{}]">>,
   <<"j", " ", "1">>,
   <<"[[">>,
   <<"{}">>,
   <<"[1]">>}

\* str.strip(chars): leading and trailing characters of the set are removed
strip(text, chars) ==
  LET keep == {k \in 1..Len(text) : text[k] \notin chars}
  IN  IF keep = {} THEN <<>>
      ELSE SubSeq(text, CHOOSE k \in keep : \A j \in keep : k <= j,
                        CHOOSE k \in keep : \A j \in keep : j <= k)

\* json.loads(text): the kind of value, or the exception raised
json_loads(text) ==
  LET t == strip(text, Whitespace)
  IN  IF t = <<>> THEN "JSONDecodeError"
      ELSE IF t[1] = "[[" THEN "RecursionError"
      ELSE IF Len(t) = 1 /\ t[1] \in JsonValues THEN t[1]
      ELSE "JSONDecodeError"

\* json.loads(response.strip().strip(fence + "json").strip(fence)): lines
\* 156, 180, 227, 353, 425
_loads(response) ==
  json_loads(strip(strip(strip(response, Whitespace), FenceJson), Fence))

\* no response read as text yet
NoParse == [phase |-> "none", text |-> <<>>, value |-> "none",
            verification |-> <<>>]

\* the verdict of lines 358-364 for one hypothesis, the score in tenths
DefaultVerdict(h) ==
  [hypothesis |-> h, support_score |-> DefaultScore, supporting_evidence |-> <<>>,
   counter_evidence |-> <<>>, verdict |-> "inconclusive"]

\* what _verify has in `verification` after line 366: the default verdicts,
\* or the value parsed (a value that is no list is wrapped in one)
_verification(value, hypotheses) ==
  IF value \in {"JSONDecodeError", "RecursionError", "raised"}
  THEN [k \in 1..Len(hypotheses) |-> DefaultVerdict(hypotheses[k])]
  ELSE <<>>

\* hypotheses that are a number: it cannot be iterated
NotIterable == <<"scalar">>

\* _hypothesize when the response is a JSON number (lines 179-186), then
\* lines 106-116 of run; enumerate(hypotheses) raises in the plan prompt of
\* _explore_with_tools (line 212)
hypothesize_scalar(a, mode) ==
  LET b == _log([a EXCEPT !.context.hypotheses = NotIterable], "hypothesize")
  IN  IF NeedsApproval(mode)
      THEN Return([b EXCEPT !.state = "awaiting_approval",
                            !.pending_approval =
                               [phase |-> "hypothesize", hypotheses |-> NotIterable,
                                message |-> "approve"]],
                  <<>>)
      ELSE Raise(_log([b EXCEPT !.frame.hypotheses = NotIterable], "explore"))

(***************************************************************************)
(* Actions of the agent.                                                   *)
(***************************************************************************)
AgentIdle == frame.op = "none" /\ inv.pc = "none"

InvokeEnded == inv.caller = "agent" /\ inv.pc \in {"returned", "raised"}

\* contexts a caller may resume with: the one of the run, or a new one
Contexts == {context, NewContext}

\* a caller awaits agent.run(context)
Run ==
  /\ AgentIdle
  /\ ops < MaxOps
  /\ Become(run([Me EXCEPT !.call = [op |-> "run", from |-> state,
                                       approved |-> <<>>]],
                NewContext))
  /\ ops' = ops + 1
  /\ UNCHANGED <<TASK_MODEL_MAP, llm_deployment_mode, regVars,
                 circuit_breakers, streak, now, invokes, selected, faults, hitl_mode>>

\* a caller awaits agent.resume_after_approval(context, approved_hypotheses)
Resume ==
  /\ AgentIdle
  /\ ops < MaxOps
  /\ \E ctx \in Contexts, approved \in ApprovedLists :
       Become(resume_after_approval(
                [Me EXCEPT !.call = [op |-> "resume", from |-> state,
                                     approved |-> approved]],
                ctx, approved))
  /\ ops' = ops + 1
  /\ UNCHANGED <<TASK_MODEL_MAP, llm_deployment_mode, regVars,
                 circuit_breakers, streak, now, invokes, selected, faults, hitl_mode>>

ObserveEnd ==
  /\ frame.pc = "observe"
  /\ InvokeEnded
  /\ IF inv.pc = "raised" THEN Become(Raise(Me))
     ELSE \E response \in ObserveResponses : Become(observe_end(Me, response))
  /\ UNCHANGED <<TASK_MODEL_MAP, llm_deployment_mode, regVars,
                 circuit_breakers, streak, now, invokes, selected, faults, hitl_mode, ops>>

HypothesizeEnd ==
  /\ frame.pc = "hypothesize"
  /\ InvokeEnded
  /\ IF inv.pc = "raised" THEN Become(Raise(Me))
     ELSE \E response \in HypothesizeResponses :
            Become(hypothesize_end(Me, response, hitl_mode))
  /\ UNCHANGED <<TASK_MODEL_MAP, llm_deployment_mode, regVars,
                 circuit_breakers, streak, now, invokes, selected, faults, hitl_mode, ops>>

ExploreEndOn(responses) ==
  /\ frame.pc = "explore"
  /\ InvokeEnded
  /\ IF inv.pc = "raised"
     THEN Become(explore_end(Me, FALSE, Response("nonjson", <<>>)))
     ELSE \E response \in responses :
            Become(explore_end(Me, response.shape # "nonjson", response))
  /\ UNCHANGED <<TASK_MODEL_MAP, llm_deployment_mode, regVars,
                 circuit_breakers, streak, now, invokes, selected, faults, hitl_mode, ops>>

ExploreEnd == ExploreEndOn(PlanResponses)

\* the same step when the model returns one of the long plans
ExploreEndLong == ExploreEndOn(LongPlanResponses)

ExecuteEnd ==
  /\ frame.pc = "execute"
  /\ \E success \in BOOLEAN : Become(execute_end(Me, success))
  /\ UNCHANGED <<TASK_MODEL_MAP, llm_deployment_mode, regVars,
                 circuit_breakers, streak, now, invokes, selected, faults, hitl_mode, ops>>

SaveEnd ==
  /\ frame.pc = "save"
  /\ \/ Become(save_end(Me, TRUE)) /\ faults' = faults
     \/ faults < MaxFaults /\ faults' = faults + 1 /\ Become(save_end(Me, FALSE))
  /\ UNCHANGED <<TASK_MODEL_MAP, llm_deployment_mode, regVars,
                 circuit_breakers, streak, now, invokes, selected, hitl_mode, ops>>

VerifyEnd ==
  /\ frame.pc = "verify"
  /\ InvokeEnded
  /\ IF inv.pc = "raised" THEN Become(verify_end(Me, FALSE, "nonjson"))
     ELSE \E response \in VerifyResponses :
            Become(verify_end(Me, response # "nonjson", response))
  /\ UNCHANGED <<TASK_MODEL_MAP, llm_deployment_mode, regVars,
                 circuit_breakers, streak, now, invokes, selected, faults, hitl_mode, ops>>

SynthesizeEnd ==
  /\ frame.pc = "synthesize"
  /\ InvokeEnded
  /\ IF inv.pc = "raised" THEN Become(Raise(Me))
     ELSE \E response \in SynthesizeResponses : Become(synthesize_end(Me, response))
  /\ UNCHANGED <<TASK_MODEL_MAP, llm_deployment_mode, regVars,
                 circuit_breakers, streak, now, invokes, selected, faults, hitl_mode, ops>>

\* The same steps with the response given as text.
\* _observe after its model call: lines 154-161
ObserveParse ==
  /\ frame.pc = "observe"
  /\ InvokeEnded
  /\ IF inv.pc = "raised"
     THEN /\ Become(Raise(Me))
          /\ reading' = [NoParse EXCEPT !.phase = "observe", !.value = "raised"]
     ELSE \E response \in Texts :
            LET v == _loads(response)
            IN  /\ reading' = [NoParse EXCEPT !.phase = "observe",
                                             !.text = response, !.value = v]
                /\ Become(CASE v = "RecursionError" -> Raise(Me)
                            [] v = "JSONDecodeError" -> observe_end(Me, "nonjson")
                            [] v \in {"[{}]", "[1]"} -> observe_end(Me, "list")
                            [] OTHER -> observe_end(Me, "object"))
  /\ UNCHANGED <<TASK_MODEL_MAP, llm_deployment_mode, _tools, registered, reg,
                 process, sideVars,
                 circuit_breakers, streak, now, invokes, selected, faults, hitl_mode, ops>>

\* _hypothesize after its model call: lines 179-186
HypothesizeParse ==
  /\ frame.pc = "hypothesize"
  /\ InvokeEnded
  /\ IF inv.pc = "raised"
     THEN /\ Become(Raise(Me))
          /\ reading' = [NoParse EXCEPT !.phase = "hypothesize", !.value = "raised"]
     ELSE \E response \in Texts :
            LET v == _loads(response)
            IN  /\ reading' = [NoParse EXCEPT !.phase = "hypothesize",
                                             !.text = response, !.value = v]
                /\ Become(CASE v = "RecursionError" -> Raise(Me)
                            [] v = "JSONDecodeError" ->
                                 hypothesize_end(Me, "nonjson", hitl_mode)
                            [] v = "1" -> hypothesize_scalar(Me, hitl_mode)
                            [] OTHER -> hypothesize_end(Me, "list", hitl_mode))
  /\ UNCHANGED <<TASK_MODEL_MAP, llm_deployment_mode, _tools, registered, reg,
                 process, sideVars,
                 circuit_breakers, streak, now, invokes, selected, faults, hitl_mode, ops>>

\* _explore_with_tools after its model call: lines 225-246; an object is
\* wrapped in a list (line 229) and read with call.get
ExploreParse ==
  /\ frame.pc = "explore"
  /\ InvokeEnded
  /\ IF inv.pc = "raised"
     THEN /\ Become(explore_end(Me, FALSE, Response("nonjson", <<>>)))
          /\ reading' = [NoParse EXCEPT !.phase = "explore", !.value = "raised"]
     ELSE \E response \in Texts :
            LET v == _loads(response)
            IN  /\ reading' = [NoParse EXCEPT !.phase = "explore",
                                             !.text = response, !.value = v]
                /\ Become(CASE v \in {"JSONDecodeError", "RecursionError"} ->
                                 explore_end(Me, FALSE, Response("nonjson", <<>>))
                            [] v = "[{}]" ->
                                 explore_end(Me, TRUE,
                                   Response("list", <<Call("cluster_analysis", "map")>>))
                            [] v = "{}" ->
                                 explore_end(Me, TRUE,
                                   Response("list", <<Call("", "map")>>))
                            [] OTHER ->
                                 explore_end(Me, TRUE, Response("badshape", <<>>)))
  /\ UNCHANGED <<TASK_MODEL_MAP, llm_deployment_mode, _tools, registered, reg,
                 process, sideVars,
                 circuit_breakers, streak, now, invokes, selected, faults, hitl_mode, ops>>

\* _verify after its model call: lines 351-376
VerifyParse ==
  /\ frame.pc = "verify"
  /\ InvokeEnded
  /\ IF inv.pc = "raised"
     THEN /\ Become(verify_end(Me, FALSE, "nonjson"))
          /\ reading' = [NoParse EXCEPT !.phase = "verify", !.value = "raised",
                                       !.verification =
                                          _verification("raised", frame.hypotheses)]
     ELSE \E response \in Texts :
            LET v == _loads(response)
            IN  /\ reading' = [NoParse EXCEPT !.phase = "verify",
                                             !.text = response, !.value = v,
                                             !.verification =
                                                _verification(v, frame.hypotheses)]
                /\ Become(CASE v \in {"JSONDecodeError", "RecursionError"} ->
                                 verify_end(Me, FALSE, "nonjson")
                            [] v \in {"[{}]", "{}"} -> verify_end(Me, TRUE, "list")
                            [] OTHER -> verify_end(Me, TRUE, "badshape"))
  /\ UNCHANGED <<TASK_MODEL_MAP, llm_deployment_mode, _tools, registered, reg,
                 process, sideVars,
                 circuit_breakers, streak, now, invokes, selected, faults, hitl_mode, ops>>

\* _synthesize after its model call: lines 424-448
SynthesizeParse ==
  /\ frame.pc = "synthesize"
  /\ InvokeEnded
  /\ IF inv.pc = "raised"
     THEN /\ Become(Raise(Me))
          /\ reading' = [NoParse EXCEPT !.phase = "synthesize", !.value = "raised"]
     ELSE \E response \in Texts :
            LET v == _loads(response)
            IN  /\ reading' = [NoParse EXCEPT !.phase = "synthesize",
                                             !.text = response, !.value = v]
                /\ Become(CASE v = "RecursionError" -> Raise(Me)
                            [] v = "JSONDecodeError" ->
                                 synthesize_end(Me, Response("nonjson", <<>>))
                            [] v = "[{}]" ->
                                 synthesize_end(Me, Response("list", << <<>> >>))
                            [] OTHER ->
                                 synthesize_end(Me, Response("badshape", <<>>)))
  /\ UNCHANGED <<TASK_MODEL_MAP, llm_deployment_mode, _tools, registered, reg,
                 process, sideVars,
                 circuit_breakers, streak, now, invokes, selected, faults, hitl_mode, ops>>

(***************************************************************************)
(* AnalysisToolRegistry.                                                   *)
(***************************************************************************)
\* no registry call made yet; outcome is history: what the called tool did
NoReg == [op |-> "none", tool_name |-> "none", kwargs |-> {}, before |-> <<>>,
          called |-> <<>>, kind |-> "none", result |-> None,
          outcome |-> "none"]

MaxRegisters == 3

\* a tool object and the name its definition() gives
Tool(id, name) == [id |-> id, name |-> name]

\* None where a tool is expected
NoTool == Tool(0, "None")

\* the tools registered: two of them define the same name
ToolObjects == {Tool(1, "cluster_analysis"), Tool(2, "cluster_analysis"),
                Tool(3, "sentiment_analysis")}

\* the names execute and get are called with
ToolNames == {"cluster_analysis", "sentiment_analysis", "nonexistent"}

\* the parameter names of execute itself (lines 123-128): a keyword argument
\* of one of these names cannot be bound a second time
Reserved == {"tool_name", "dataset_id", "db"}

\* one keyword argument of **kwargs: its name, the JSON type of its value
\* and the value as text
Kwarg(name, type, value) == [name |-> name, type |-> type, value |-> value]

\* the keyword arguments passed as **kwargs: none, a declared one, a reserved
\* name among them, a value outside the declared enum, a value of another
\* type than the declared one
KwargSets ==
  {{},
   {Kwarg("n_clusters", "integer", "5")},
   {Kwarg("n_clusters", "integer", "5"), Kwarg("tool_name", "string", "x")},
   {Kwarg("mode", "string", "custom")},
   {Kwarg("n_clusters", "string", "five")}}

\* ToolParameter (lines 21-30); enum = {} is enum = None
ToolParameter(name, type, required, enum) ==
  [name |-> name, type |-> type, required |-> required, enum |-> enum]

\* definition().parameters of the tools (tools/cluster_tool.py lines 30-46,
\* tools/sentiment_tool.py lines 30-39)
parameters(tool_name) ==
  CASE tool_name = "cluster_analysis" ->
         {ToolParameter("algorithm", "string", FALSE, {"kmeans", "hdbscan", "gmm"}),
          ToolParameter("n_clusters", "integer", FALSE, {})}
    [] tool_name = "sentiment_analysis" ->
         {ToolParameter("mode", "string", FALSE, {"basic", "business", "risk"})}
    [] OTHER -> {}

\* what tool.execute does: return a result with success True, return a
\* failed result with its error text, return a failed result with error left
\* at its default None, raise an Exception, or be cancelled (CancelledError
\* is a BaseException)
ToolOutcomes == {"ok", "failed", "unchecked", "raises", "cancelled"}

\* error = None of a ToolResult; an error text is a sequence of its parts
NoError == <<>>

\* ToolResult (lines 44-54): data, summary, key_findings and evidence_refs
\* play no part in the registry
ToolResult(tool_name, success, error) ==
  [tool_name |-> tool_name, success |-> success, error |-> error]

\* f"Unknown tool: {tool_name}" (line 140)
UnknownTool(tool_name) == <<"Unknown tool: ", tool_name>>

\* the keys of the dict _tools, kept as the sequence of its items in
\* insertion order
Keys(tools) == {tools[k].name : k \in 1..Len(tools)}

ItemOf(tools, name) == CHOOSE k \in 1..Len(tools) : tools[k].name = name

\* mutant: a name already registered keeps its first tool
register_keeps_first(tools, tool) ==
  IF tool.name \in Keys(tools) THEN tools
  ELSE Append(tools, [name |-> tool.name, tool |-> tool])

\* register (lines 82-85): self._tools[defn.name] = tool
register(tools, tool) ==
  IF tool.name \in Keys(tools)
  THEN [tools EXCEPT ![ItemOf(tools, tool.name)].tool = tool]
  ELSE Append(tools, [name |-> tool.name, tool |-> tool])

\* get (lines 87-88)
get(tools, name) ==
  IF name \in Keys(tools) THEN tools[ItemOf(tools, name)].tool ELSE NoTool

\* list_tools (lines 90-91): the definition of every value, by its name
list_tools(tools) == [k \in 1..Len(tools) |-> tools[k].tool.name]

\* execute (lines 123-154) called with tool_name and **kwargs, the tool's
\* own execute doing `outcome`: how the call ends, its result, the tools
\* whose execute was called
execute(tools, tool_name, kwargs, outcome) ==
  IF {k.name : k \in kwargs} \cap Reserved # {}
  THEN [kind |-> "raised", result |-> "TypeError", called |-> <<>>]
  ELSE LET tool == get(tools, tool_name)
       IN  IF tool = NoTool
           THEN [kind |-> "returned", called |-> <<>>,
                 result |-> ToolResult(tool_name, FALSE, UnknownTool(tool_name))]
           ELSE CASE outcome = "ok" ->
                       [kind |-> "returned", called |-> <<tool>>,
                        result |-> ToolResult(tool.name, TRUE, NoError)]
                  [] outcome = "failed" ->
                       [kind |-> "returned", called |-> <<tool>>,
                        result |-> ToolResult(tool.name, FALSE, <<"empty dataset">>)]
                  [] outcome = "unchecked" ->
                       [kind |-> "returned", called |-> <<tool>>,
                        result |-> ToolResult(tool.name, FALSE, NoError)]
                  [] outcome = "raises" ->
                       [kind |-> "returned", called |-> <<tool>>,
                        result |-> ToolResult(tool_name, FALSE, <<"boom">>)]
                  [] OTHER ->
                       [kind |-> "raised", called |-> <<tool>>,
                        result |-> "CancelledError"]

Register ==
  /\ Len(registered) < MaxRegisters
  /\ \E tool \in ToolObjects :
       /\ _tools' = register(_tools, tool)
       /\ registered' = Append(registered, tool)
       /\ reg' = [NoReg EXCEPT !.op = "register", !.tool_name = tool.name,
                               !.before = _tools]
  /\ UNCHANGED <<TASK_MODEL_MAP, llm_deployment_mode, circuit_breakers, streak,
                 now, inv, invokes, selected, faults, reading, process, sideVars>>
  /\ UNCHANGED agentVars

Get ==
  /\ \E name \in ToolNames :
       reg' = [NoReg EXCEPT !.op = "get", !.tool_name = name, !.before = _tools,
                            !.kind = "returned", !.result = get(_tools, name)]
  /\ UNCHANGED <<TASK_MODEL_MAP, llm_deployment_mode, circuit_breakers, streak,
                 now, inv, invokes, selected, faults, _tools, registered,
                 reading, process, sideVars>>
  /\ UNCHANGED agentVars

ListTools ==
  /\ reg' = [NoReg EXCEPT !.op = "list_tools", !.before = _tools,
                          !.kind = "returned", !.result = list_tools(_tools)]
  /\ UNCHANGED <<TASK_MODEL_MAP, llm_deployment_mode, circuit_breakers, streak,
                 now, inv, invokes, selected, faults, _tools, registered,
                 reading, process, sideVars>>
  /\ UNCHANGED agentVars

Execute ==
  /\ \E tool_name \in ToolNames, kwargs \in KwargSets, outcome \in ToolOutcomes :
       LET e == execute(_tools, tool_name, kwargs, outcome)
       IN  reg' = [op |-> "execute", tool_name |-> tool_name, kwargs |-> kwargs,
                   before |-> _tools, called |-> e.called, kind |-> e.kind,
                   result |-> e.result,
                   outcome |-> IF e.called = <<>> THEN "none" ELSE outcome]
  /\ UNCHANGED <<TASK_MODEL_MAP, llm_deployment_mode, circuit_breakers, streak,
                 now, inv, invokes, selected, faults, _tools, registered,
                 reading, process, sideVars>>
  /\ UNCHANGED agentVars

(***************************************************************************)
(* The orchestrators of one server process.  Every AnalysisAgent builds    *)
(* its own LLMOrchestrator (analysis_agent.py line 71); the tools, the     *)
(* pipeline and the endpoints call the module's llm_orchestrator           *)
(* (llm_orchestrator.py line 221).  process holds                          *)
(*   circuit_breakers  the breaker map of each orchestrator                *)
(*   calls             the invoke call each task of the event loop has in  *)
(*                     flight: pc is the await it is suspended at, open    *)
(*                     the models that no orchestrator of the process      *)
(*                     would let through when the call selected (history)  *)
(*   streak            per orchestrator and model, the failures recorded   *)
(*                     since the last recorded success (history)           *)
(*   invokes           the invoke calls started                            *)
(* A task runs without interruption between two awaits (asyncio).          *)
(***************************************************************************)
Orchestrators == {"agent_1.llm", "agent_2.llm", "llm_orchestrator"}

\* two agent runs, and two tools making their own model calls
Tasks == {"agent_1", "agent_2", "tool_1", "tool_2"}

\* the orchestrator a task calls: self.llm of its agent (line 71) or the
\* module's llm_orchestrator
llm(task) ==
  CASE task = "agent_1" -> "agent_1.llm"
    [] task = "agent_2" -> "agent_2.llm"
    [] OTHER -> "llm_orchestrator"

\* the task type of the calls of the process
ProcessTaskType == "labeling"

MaxProcessInvokes == 6

NoCallInFlight == [pc |-> "none", model |-> NoModel, fallback |-> NoModel,
                   open |-> {}]

NoProcess ==
  [circuit_breakers |-> [o \in Orchestrators |-> <<>>],
   calls |-> [task \in Tasks |-> NoCallInFlight],
   streak |-> [o \in Orchestrators |-> [m \in Models |-> 0]],
   invokes |-> 0]

\* the models some orchestrator of the process holds an open breaker for that
\* cannot proceed at time t
OpenInProcess(p, t) ==
  {m \in Models :
     \E o \in Orchestrators : ~Available(p.circuit_breakers[o], t, m)}

\* lines 119-125 on the orchestrator of the task: select the model from that
\* orchestrator's breakers and start its call
process_invoke(p, task, t) ==
  LET model == select_model(p.circuit_breakers[llm(task)], t,
                            ProcessTaskType, INTERNAL)
  IN  [p EXCEPT !.calls[task] = [pc |-> "primary", model |-> model,
                                 fallback |-> NoModel,
                                 open |-> OpenInProcess(p, t)],
                !.invokes = @ + 1]

\* lines 131-133: cb = setdefault(model); cb.record_success(); return result
process_success(p, task) ==
  LET o == llm(task)
      m == p.calls[task].model
      cbs == setdefault(p.circuit_breakers[o], m)
  IN  [p EXCEPT !.circuit_breakers[o] = [cbs EXCEPT ![m] = record_success(cbs[m])],
                !.streak[o][m] = 0,
                !.calls[task] = NoCallInFlight]

\* lines 135-145: the except branch; the fallback call is awaited, or the
\* exception leaves invoke
process_except(p, task, t) ==
  LET o == llm(task)
      m == p.calls[task].model
      old == setdefault(p.circuit_breakers[o], m)
      cbs == [old EXCEPT ![m] = record_failure(old[m], t)]
      fallback == _get_fallback(cbs, t, m, ProcessTaskType)
  IN  [p EXCEPT !.circuit_breakers[o] = cbs,
                !.streak[o][m] = @ + 1,
                !.calls[task] =
                   IF fallback # NoModel /\ fallback # m
                   THEN [@ EXCEPT !.pc = "fallback", !.fallback = fallback]
                   ELSE NoCallInFlight]

\* a task calls invoke on its orchestrator
ProcessInvoke ==
  /\ process.invokes < MaxProcessInvokes
  /\ \E task \in Tasks :
       /\ process.calls[task].pc = "none"
       /\ process' = process_invoke(process, task, now)
  /\ UNCHANGED <<TASK_MODEL_MAP, llm_deployment_mode, circuit_breakers, streak,
                 now, inv, invokes, selected, faults, _tools, registered, reg,
                 reading, sideVars>>
  /\ UNCHANGED agentVars

\* the call of the selected model returns (line 125); track_usage is next
ProcessPrimaryOk ==
  /\ \E task \in Tasks :
       /\ process.calls[task].pc = "primary"
       /\ process' = [process EXCEPT !.calls[task].pc = "track"]
  /\ UNCHANGED <<TASK_MODEL_MAP, llm_deployment_mode, circuit_breakers, streak,
                 now, inv, invokes, selected, faults, _tools, registered, reg,
                 reading, sideVars>>
  /\ UNCHANGED agentVars

\* the call of the selected model raises (line 125)
ProcessPrimaryFail ==
  /\ \E task \in Tasks :
       /\ process.calls[task].pc = "primary"
       /\ process' = process_except(process, task, now)
  /\ UNCHANGED <<TASK_MODEL_MAP, llm_deployment_mode, circuit_breakers, streak,
                 now, inv, invokes, selected, faults, _tools, registered, reg,
                 reading, sideVars>>
  /\ UNCHANGED agentVars

\* track_usage returns (line 129)
ProcessTrackOk ==
  /\ \E task \in Tasks :
       /\ process.calls[task].pc = "track"
       /\ process' = process_success(process, task)
  /\ UNCHANGED <<TASK_MODEL_MAP, llm_deployment_mode, circuit_breakers, streak,
                 now, inv, invokes, selected, faults, _tools, registered, reg,
                 reading, sideVars>>
  /\ UNCHANGED agentVars

\* track_usage raises (line 129)
ProcessTrackFail ==
  /\ \E task \in Tasks :
       /\ process.calls[task].pc = "track"
       /\ process' = process_except(process, task, now)
  /\ UNCHANGED <<TASK_MODEL_MAP, llm_deployment_mode, circuit_breakers, streak,
                 now, inv, invokes, selected, faults, _tools, registered, reg,
                 reading, sideVars>>
  /\ UNCHANGED agentVars

\* the fallback call returns or raises (line 144): nothing is recorded
ProcessFallbackEnd ==
  /\ \E task \in Tasks :
       /\ process.calls[task].pc = "fallback"
       /\ process' = [process EXCEPT !.calls[task] = NoCallInFlight]
  /\ UNCHANGED <<TASK_MODEL_MAP, llm_deployment_mode, circuit_breakers, streak,
                 now, inv, invokes, selected, faults, _tools, registered, reg,
                 reading, sideVars>>
  /\ UNCHANGED agentVars

\* the variables the objects beside the agent leave alone
mainVars == <<TASK_MODEL_MAP, llm_deployment_mode, circuit_breakers, streak,
              now, inv, invokes, selected, faults, _tools, registered, reg,
              reading, process>>

(***************************************************************************)
(* ModelRegistry (llm_providers/model_registry.py).  model_registry holds  *)
(* _mappings, the custom mappings it was built with and the last call.     *)
(***************************************************************************)
\* ModelMapping (lines 9-18)
ModelMapping(logical_name, direct, bedrock, azure, vertex_ai, local) ==
  [logical_name |-> logical_name, direct |-> direct, bedrock |-> bedrock,
   azure |-> azure, vertex_ai |-> vertex_ai, local |-> local]

\* DEFAULT_MODEL_MAPPINGS (lines 22-62)
DEFAULT_MODEL_MAPPINGS ==
  ("claude-opus-4-6" :>
     ModelMapping("claude-opus-4-6", "claude-opus-4-6",
                  "anthropic.claude-opus-4-6-v1:0", "claude-opus-4-6",
                  "claude-opus-4-6@20250514", None))
  @@ ("claude-sonnet-4-5-20250929" :>
     ModelMapping("claude-sonnet-4-5-20250929", "claude-sonnet-4-5-20250929",
                  "anthropic.claude-sonnet-4-5-20250929-v1:0",
                  "claude-sonnet-4-5-20250929",
                  "claude-sonnet-4-5-20250929@20250929", None))
  @@ ("gpt-5.2" :> ModelMapping("gpt-5.2", "gpt-5.2", None, "gpt-5-2", None, None))
  @@ ("gpt-5-mini" :>
     ModelMapping("gpt-5-mini", "gpt-5-mini", None, "gpt-5-mini", None, None))
  @@ ("gemini-3.0-pro" :>
     ModelMapping("gemini-3.0-pro", "gemini-3.0-pro", None, None,
                  "gemini-3.0-pro", None))
  @@ ("gemini-3.0-flash" :>
     ModelMapping("gemini-3.0-flash", "gemini-3.0-flash", None, None,
                  "gemini-3.0-flash", None))
  @@ ("llama-4-405b" :>
     ModelMapping("llama-4-405b", None, "meta.llama-4-405b-v1:0", None, None,
                  "llama-4-405b"))

\* the custom_mappings a registry is built with: None, one that overrides a
\* default entry, one that adds a model (test_model_registry.py lines 76-96)
CustomMappings ==
  {<<>>,
   "claude-opus-4-6" :>
     ModelMapping("claude-opus-4-6", "custom-claude-id", None, None, None, None),
   "my-custom-model" :>
     ModelMapping("my-custom-model", "custom-direct-id", None, None, None,
                  "custom-local-id")}

\* the names and modes the registry is asked about
LogicalNames == Models \cup {"my-custom-model", "nonexistent-model"}

DeploymentModes == LLMDeploymentMode \cup {"unknown_mode"}

\* mode_to_field of resolve (lines 86-92)
mode_to_field(mapping) ==
  ("direct" :> mapping.direct) @@ ("aws_bedrock" :> mapping.bedrock)
  @@ ("azure_ai_foundry" :> mapping.azure)
  @@ ("gcp_vertex_ai" :> mapping.vertex_ai) @@ ("local" :> mapping.local)

\* mutant: a custom mapping is merged into the default entry field by field
ModelRegistry_merged(custom_mappings) ==
  [name \in DOMAIN custom_mappings \cup DOMAIN DEFAULT_MODEL_MAPPINGS |->
     IF name \notin DOMAIN custom_mappings THEN DEFAULT_MODEL_MAPPINGS[name]
     ELSE IF name \notin DOMAIN DEFAULT_MODEL_MAPPINGS THEN custom_mappings[name]
     ELSE [f \in DOMAIN custom_mappings[name] |->
             IF custom_mappings[name][f] # None THEN custom_mappings[name][f]
             ELSE DEFAULT_MODEL_MAPPINGS[name][f]]]

\* ModelRegistry.__init__ (lines 68-71): _mappings
ModelRegistry(custom_mappings) == custom_mappings @@ DEFAULT_MODEL_MAPPINGS

\* ModelRegistry.resolve on the mappings of a registry (lines 73-93)
ModelRegistry_resolve(_mappings, logical_model, deployment_mode) ==
  IF logical_model \notin DOMAIN _mappings THEN None
  ELSE LET fields == mode_to_field(_mappings[logical_model])
       IN  IF deployment_mode \in DOMAIN fields THEN fields[deployment_mode]
           ELSE None

\* get_supported_models (lines 95-101), as the set of the names listed
get_supported_models(_mappings, deployment_mode) ==
  {name \in DOMAIN _mappings :
     ModelRegistry_resolve(_mappings, name, deployment_mode) # None}

NoModelRegistry ==
  [_mappings |-> ModelRegistry(<<>>), custom_mappings |-> <<>>, op |-> "none",
   logical_model |-> "none", deployment_mode |-> "none", resolved |-> None,
   supported |-> {}]

NewModelRegistry ==
  /\ \E custom_mappings \in CustomMappings :
       model_registry' = [NoModelRegistry EXCEPT
                            !._mappings = ModelRegistry(custom_mappings),
                            !.custom_mappings = custom_mappings,
                            !.op = "new"]
  /\ UNCHANGED <<mainVars, agentVars, bucket, agent_store, dlq>>

Resolve ==
  /\ \E logical_model \in LogicalNames, deployment_mode \in DeploymentModes :
       model_registry' =
         [model_registry EXCEPT
            !.op = "resolve", !.logical_model = logical_model,
            !.deployment_mode = deployment_mode, !.supported = {},
            !.resolved = ModelRegistry_resolve(model_registry._mappings,
                                               logical_model, deployment_mode)]
  /\ UNCHANGED <<mainVars, agentVars, bucket, agent_store, dlq>>

GetSupportedModels ==
  /\ \E deployment_mode \in DeploymentModes :
       model_registry' =
         [model_registry EXCEPT
            !.op = "get_supported_models", !.logical_model = "none",
            !.deployment_mode = deployment_mode, !.resolved = None,
            !.supported = get_supported_models(model_registry._mappings,
                                               deployment_mode)]
  /\ UNCHANGED <<mainVars, agentVars, bucket, agent_store, dlq>>

(***************************************************************************)
(* TokenBucket (middleware/rate_limit.py).  Token counts are in units of   *)
(* half a token, times in ticks of time.monotonic(), refill rates in units *)
(* per tick.  bucket holds the fields of one bucket and, as history, how   *)
(* it was built, the consume calls made and what the last one saw.         *)
(***************************************************************************)
\* 1.0 token
OneToken == 2

\* capacities and refill rates a bucket is built with
Capacities == {2 * OneToken, 5 * OneToken}

RefillRates == {0, 1, 3}

\* the ticks between two readings of the clock
Elapsed == {0, 1, 2}

MaxConsumes == 6

\* TokenBucket(capacity=c, refill_rate=r): tokens defaults to 0.0 (line 22)
\* and last_refill to the clock (line 23)
TokenBucket(capacity, refill_rate) ==
  [capacity |-> capacity, refill_rate |-> refill_rate, tokens |-> 0,
   last_refill |-> 0, built |-> "defaults", consumed |-> 0, elapsed |-> 0,
   before |-> 0, result |-> FALSE, first |-> FALSE]

\* min(a, b) of Python
min(a, b) == IF b < a THEN b ELSE a

\* consume (lines 25-35), elapsed ticks after the last refill
consume(b, elapsed) ==
  LET refilled == min(b.capacity, b.tokens + elapsed * b.refill_rate)
      ok == refilled >= OneToken
  IN  [b EXCEPT !.tokens = IF ok THEN refilled - OneToken ELSE refilled,
                !.last_refill = b.last_refill + elapsed,
                !.consumed = @ + 1, !.elapsed = elapsed, !.before = b.tokens,
                !.result = ok,
                !.first = IF b.consumed = 0 THEN ok ELSE @]

NoBucket == [TokenBucket(0, 0) EXCEPT !.built = "none"]

\* a bucket is built from capacity and refill rate alone, as the middleware
\* does (lines 57-59), or with its tokens given
NewBucket ==
  /\ \E capacity \in Capacities, refill_rate \in RefillRates :
       \/ bucket' = TokenBucket(capacity, refill_rate)
       \/ \E tokens \in {0, capacity} :
            bucket' = [TokenBucket(capacity, refill_rate) EXCEPT
                         !.tokens = tokens, !.built = "tokens"]
  /\ UNCHANGED <<mainVars, agentVars, model_registry, agent_store, dlq>>

Consume ==
  /\ bucket.built # "none"
  /\ bucket.consumed < MaxConsumes
  /\ \E elapsed \in Elapsed : bucket' = consume(bucket, elapsed)
  /\ UNCHANGED <<mainVars, agentVars, model_registry, agent_store, dlq>>

(***************************************************************************)
(* The agent endpoints (api/endpoints/agent.py) and the AgentStore behind  *)
(* them (agents/agent_store.py).  Requests are handled one after another;  *)
(* the agent variables are the AnalysisAgent the request in flight built.  *)
(* agent_store holds                                                       *)
(*   saved     the state dict stored under each agent id                   *)
(*   request   the request in flight: its endpoint, its agent id and, as   *)
(*             history, the dict approve loaded                            *)
(*   agents    the agents built so far (uuid4 gives each its own id)       *)
(*   status    the HTTP status of the last response                        *)
(***************************************************************************)
MaxRequests == 2

\* the agent ids approve is called with: the ids given out and an unknown one
AgentIds == {"a1", "a2", "unknown"}

\* str(uuid4()) of the n-th agent built (analysis_agent.py line 63)
uuid4(n) == IF n = 1 THEN "a1" ELSE "a2"

\* the dict the endpoints store (lines 45-53, 95-103); dataset_id and
\* objective are copied through
StateDict(a) ==
  [state |-> a.state, insights |-> a.ret.insights,
   pending_approval |-> a.pending_approval, logs |-> a.logs]

NoStateDict ==
  [state |-> "none", insights |-> <<>>, pending_approval |-> NoApproval,
   logs |-> <<>>]

NoRequest == [op |-> "none", agent_id |-> "none", loaded |-> NoStateDict]

NoAgentStore ==
  [saved |-> <<>>, request |-> NoRequest, agents |-> 0, status |-> 0]

\* AnalysisAgent(hitl_mode=...) (analysis_agent.py lines 59-71)
AnalysisAgent ==
  [state |-> "idle", pending_approval |-> NoApproval, insights |-> <<>>,
   logs |-> <<>>, context |-> NewContext, frame |-> NoFrame, ret |-> NoRet,
   trace |-> <<>>, call |-> NoCall, inv |-> NoInv]

\* self.llm = LLMOrchestrator() (analysis_agent.py line 71): the first call
\* of a new agent selects its model from an empty breaker map
own_llm(a) ==
  LET model == select_model(<<>>, now, a.inv.task_type, a.inv.sensitivity)
  IN  [a EXCEPT !.inv.model = model, !.inv.calls = <<model>>,
                !.inv.sent = <<_call_model(model)>>]

\* AgentStore.save (agent_store.py lines 22-25): SET under the agent's key
save(saved, agent_id, state_dict) ==
  [id \in DOMAIN saved \cup {agent_id} |->
     IF id = agent_id THEN state_dict ELSE saved[id]]

\* AgentStore.load (lines 27-31): None for a key that is not there
load(saved, agent_id) ==
  IF agent_id \in DOMAIN saved THEN saved[agent_id] ELSE NoStateDict

\* POST /start up to the first await of agent.run (lines 21-41): 404 for a
\* dataset without texts, else a new agent runs
StartAnalysis ==
  /\ agent_store.request.op = "none"
  /\ agent_store.agents < MaxRequests
  /\ \E mode \in HITLMode, texts \in BOOLEAN :
       IF ~texts
       THEN /\ agent_store' = [agent_store EXCEPT !.status = 404]
            /\ UNCHANGED <<agentVars, inv, circuit_breakers, streak>>
       ELSE /\ hitl_mode' = mode
            /\ Become(own_llm(run([AnalysisAgent EXCEPT
                                     !.call = [op |-> "run", from |-> "idle",
                                               approved |-> <<>>]],
                                  NewContext)))
            /\ circuit_breakers' = <<>>
            /\ streak' = [m \in Models |-> 0]
            /\ agent_store' =
                 [agent_store EXCEPT
                    !.agents = @ + 1, !.status = 0,
                    !.request = [NoRequest EXCEPT
                                   !.op = "start",
                                   !.agent_id = uuid4(agent_store.agents + 1)]]
            /\ ops' = ops
  /\ UNCHANGED <<TASK_MODEL_MAP, llm_deployment_mode, now, invokes, selected,
                 faults, _tools, registered, reg, reading, process,
                 model_registry, bucket, dlq>>

\* POST /{agent_id}/approve up to the first await of resume_after_approval
\* (lines 65-92): 404 when nothing is stored under the id or the dataset has
\* no texts, else a new agent with this id resumes
ApproveHypotheses ==
  /\ agent_store.request.op = "none"
  /\ agent_store.agents < MaxRequests
  /\ \E agent_id \in AgentIds, approved_hypotheses \in ApprovedLists,
        texts \in BOOLEAN :
       LET saved == load(agent_store.saved, agent_id)
       IN  IF saved = NoStateDict \/ ~texts
           THEN /\ agent_store' = [agent_store EXCEPT !.status = 404]
                /\ UNCHANGED <<agentVars, inv, circuit_breakers, streak>>
           ELSE /\ hitl_mode' = "semi_auto"
                /\ Become(own_llm(resume_after_approval(
                            [AnalysisAgent EXCEPT
                               !.call = [op |-> "resume", from |-> "idle",
                                         approved |-> approved_hypotheses]],
                            NewContext, approved_hypotheses)))
                /\ circuit_breakers' = <<>>
                /\ streak' = [m \in Models |-> 0]
                /\ agent_store' =
                     [agent_store EXCEPT
                        !.agents = @ + 1, !.status = 0,
                        !.request = [op |-> "approve", agent_id |-> agent_id,
                                     loaded |-> saved]]
                /\ ops' = ops
  /\ UNCHANGED <<TASK_MODEL_MAP, llm_deployment_mode, now, invokes, selected,
                 faults, _tools, registered, reg, reading, process,
                 model_registry, bucket, dlq>>

\* the agent call of the request ended: its state is saved under the agent
\* id and returned (lines 43-62, 94-110); an exception leaves the handler
\* before the save
SaveAgent ==
  /\ agent_store.request.op # "none"
  /\ frame.op = "none"
  /\ ret.kind # "none"
  /\ agent_store' =
       IF ret.kind = "returned"
       THEN [agent_store EXCEPT
               !.saved = save(@, agent_store.request.agent_id, StateDict(Me)),
               !.request = NoRequest, !.status = 200]
       ELSE [agent_store EXCEPT !.request = NoRequest, !.status = 500]
  /\ ret' = NoRet
  /\ UNCHANGED <<state, hitl_mode, pending_approval, insights, logs, context,
                 frame, trace, call, ops>>
  /\ UNCHANGED <<mainVars, model_registry, bucket, dlq>>

(***************************************************************************)
(* The dead letter queue (services/dlq.py): a Redis list under DLQ_KEY.    *)
(* dlq holds                                                               *)
(*   list      the Redis list, head (index 0) first                        *)
(*   callers   each caller of enqueue: where it is between its two awaits  *)
(*   pushed    the entries pushed so far; gives each entry its enqueued_at *)
(*   last      the last operation that returned: its argument, the list it *)
(*             found, the list it left and what it returned (history)      *)
(* Every Redis command either answers or raises; the methods swallow the   *)
(* exception (lines 57-58, 68-70, 86-87).                                  *)
(***************************************************************************)
\* 10000 in the code (line 17); scaled down
DLQ_MAX_SIZE == 3

MaxEnqueues == 5

DlqCallers == {"caller_1", "caller_2"}

DlqModels == {"claude-opus-4-6", "gpt-5.2"}

PeekCounts == {-1, 0, 1, 2, 4}

\* the entry of enqueue (lines 43-52)
DlqEntry(model, enqueued_at) ==
  [model |-> model, enqueued_at |-> enqueued_at, retry_count |-> 0]

NoEntry == [model |-> "none", enqueued_at |-> 0, retry_count |-> 0]

\* json.dumps / json.loads of an entry (lines 54, 66, 85)
dumps(entry) == <<"json", entry>>

loads(raw) == raw[2]

\* reversed(items) (line 85)
reversed(items) == [i \in 1..Len(items) |-> items[Len(items) + 1 - i]]

\* Redis index: a negative one counts from the tail
redis_index(list, i) == IF i < 0 THEN Len(list) + i ELSE i

\* Redis LRANGE key start stop: zero-based, both ends included, out of range
\* ends clamped
lrange(list, start, stop) ==
  LET first == IF redis_index(list, start) < 0 THEN 0
               ELSE redis_index(list, start)
      last  == min(redis_index(list, stop), Len(list) - 1)
  IN  IF first > last THEN <<>> ELSE SubSeq(list, first + 1, last + 1)

\* Redis LPUSH key value
lpush(list, value) == <<value>> \o list

\* Redis LTRIM key start stop
ltrim(list, start, stop) == lrange(list, start, stop)

NoLast ==
  [op |-> "none", count |-> 0, before |-> <<>>, after |-> <<>>,
   result |-> <<>>]

NoDlq ==
  [list |-> <<>>,
   callers |-> [c \in DlqCallers |-> "none"],
   pushed |-> 0,
   last |-> NoLast]

\* enqueue up to its second await (lines 42-54): LPUSH answers, or raises and
\* the method returns
Enqueue ==
  /\ dlq.pushed < MaxEnqueues
  /\ \E c \in DlqCallers, model \in DlqModels, raised \in BOOLEAN :
       /\ dlq.callers[c] = "none"
       /\ dlq' =
            IF raised
            THEN [dlq EXCEPT !.last = [NoLast EXCEPT !.op = "enqueue_failed",
                                                     !.before = dlq.list,
                                                     !.after = dlq.list]]
            ELSE [dlq EXCEPT
                    !.list = lpush(@, dumps(DlqEntry(model,
                                                          dlq.pushed + 1))),
                    !.pushed = @ + 1,
                    !.callers[c] = "ltrim"]
  /\ UNCHANGED <<mainVars, agentVars, model_registry, bucket, agent_store>>

\* the rest of enqueue (lines 55-58): LTRIM answers, or raises
EnqueueTrim ==
  /\ \E c \in DlqCallers, raised \in BOOLEAN :
       /\ dlq.callers[c] = "ltrim"
       /\ dlq' =
            IF raised
            THEN [dlq EXCEPT !.callers[c] = "none",
                             !.last = [NoLast EXCEPT !.op = "enqueue_failed",
                                                     !.before = dlq.list,
                                                     !.after = dlq.list]]
            ELSE [dlq EXCEPT
                    !.list = ltrim(@, 0, DLQ_MAX_SIZE - 1),
                    !.callers[c] = "none",
                    !.last = [NoLast EXCEPT
                                !.op = "enqueue", !.before = dlq.list,
                                !.after = ltrim(dlq.list, 0,
                                                DLQ_MAX_SIZE - 1)]]
  /\ UNCHANGED <<mainVars, agentVars, model_registry, bucket, agent_store>>

\* dequeue (lines 60-70): RPOP; None for an empty list or an exception
Dequeue ==
  /\ \E raised \in BOOLEAN :
       dlq' =
         IF raised
         THEN [dlq EXCEPT !.last = [NoLast EXCEPT !.op = "dequeue_failed",
                                                  !.before = dlq.list,
                                                  !.after = dlq.list]]
         ELSE IF dlq.list = <<>>
         THEN [dlq EXCEPT !.last = [NoLast EXCEPT !.op = "dequeue"]]
         ELSE [dlq EXCEPT
                 !.list = SubSeq(@, 1, Len(@) - 1),
                 !.last = [NoLast EXCEPT
                             !.op = "dequeue", !.before = dlq.list,
                             !.after = SubSeq(dlq.list, 1, Len(dlq.list) - 1),
                             !.result =
                               <<loads(dlq.list[Len(dlq.list)])>>]]
  /\ UNCHANGED <<mainVars, agentVars, model_registry, bucket, agent_store>>

\* peek (lines 80-87): LRANGE -count -1, reversed; [] for an exception
Peek ==
  /\ \E count \in PeekCounts, raised \in BOOLEAN :
       dlq' =
         [dlq EXCEPT
            !.last =
              IF raised
              THEN [NoLast EXCEPT !.op = "peek_failed", !.count = count,
                                  !.before = dlq.list, !.after = dlq.list]
              ELSE [op |-> "peek", count |-> count, before |-> dlq.list,
                    after |-> dlq.list,
                    result |->
                      LET items == lrange(dlq.list, -count, -1)
                      IN  [i \in 1..Len(items) |->
                             loads(reversed(items)[i])]]]
  /\ UNCHANGED <<mainVars, agentVars, model_registry, bucket, agent_store>>


(***************************************************************************)
(* Specifications.                                                         *)
(***************************************************************************)
\* AnalysisToolRegistry(): line 80
InitRegistry ==
  /\ _tools = <<>>
  /\ registered = <<>>
  /\ reg = NoReg
  /\ reading = NoParse
  /\ process = NoProcess
  /\ model_registry = NoModelRegistry
  /\ bucket = NoBucket
  /\ agent_store = NoAgentStore
  /\ dlq = NoDlq

InitOrch ==
  /\ TASK_MODEL_MAP = DefaultTaskModelMap
  /\ circuit_breakers = <<>>
  /\ streak = [m \in Models |-> 0]
  /\ now = 0
  /\ inv = NoInv
  /\ invokes = 0
  /\ selected = NoSelection
  /\ faults = 0
  /\ InitRegistry

\* AnalysisAgent(hitl_mode = mode): lines 63-71
InitAgent ==
  /\ state = "idle"
  /\ hitl_mode \in HITLMode
  /\ pending_approval = NoApproval
  /\ insights = <<>>
  /\ logs = <<>>
  /\ context = NewContext
  /\ frame = NoFrame
  /\ ret = NoRet
  /\ trace = <<>>
  /\ call = NoCall
  /\ ops = 0

Init == InitOrch /\ InitAgent /\ llm_deployment_mode = DefaultMode

\* the steps of an invoke call in flight
OrchStep ==
  \/ PrimaryOk
  \/ PrimaryFail
  \/ TrackOk
  \/ TrackFail
  \/ FallbackOk
  \/ FallbackFail

\* One agent and the orchestrator it owns (self.llm, line 71).  The calls of
\* one agent fall within one cooldown: the clock advances in SpecOrch.
Next ==
  \/ Run
  \/ Resume
  \/ ObserveEnd
  \/ HypothesizeEnd
  \/ ExploreEnd
  \/ ExecuteEnd
  \/ SaveEnd
  \/ VerifyEnd
  \/ SynthesizeEnd
  \/ OrchStep

Spec == Init /\ [][Next]_vars

\* Direct callers of one orchestrator, and the clock.
NextOrch ==
  \/ Invoke
  \/ InvokeEnd
  \/ OrchStep
  \/ Tick

\* every deployment mode the settings can name
InitModes == InitOrch /\ InitAgent /\ llm_deployment_mode \in LLMDeploymentMode

SpecOrch == InitModes /\ [][NextOrch]_vars

(***************************************************************************)
(* select_model on drawn breaker maps: every model has no breaker, a       *)
(* closed one, an open one whose cooldown has elapsed (last failure at 0)  *)
(* or an open one whose last failure is exactly Cooldown ago.              *)
(***************************************************************************)
SelectNow == 61

BreakerSamples ==
  {CircuitBreaker,
   [failure_count |-> 3, is_open |-> TRUE, last_failure |-> 0],
   [failure_count |-> 3, is_open |-> TRUE, last_failure |-> SelectNow - Cooldown]}

BreakerMaps ==
  UNION {[D -> BreakerSamples] : D \in SUBSET Models}

\* contents of the table: the default, and one with a short list, an empty
\* list, the local model among the candidates and task types left out
TaskTables ==
  {DefaultTaskModelMap,
   [t \in {"labeling", "vision", "chat"} |->
      CASE t = "labeling" -> <<"gpt-5.2">>
        [] t = "vision" -> <<>>
        [] t = "chat" -> <<"llama-4-405b", "gemini-3.0-flash">>]}

InitSelect ==
  /\ TASK_MODEL_MAP \in TaskTables
  /\ circuit_breakers \in BreakerMaps
  /\ streak = [m \in Models |-> 0]
  /\ llm_deployment_mode = DefaultMode
  /\ InitRegistry
  /\ now = SelectNow
  /\ inv = NoInv
  /\ invokes = 0
  /\ selected = NoSelection
  /\ faults = 0
  /\ InitAgent
  /\ hitl_mode = "semi_auto"

SpecSelect == InitSelect /\ [][SelectModel]_vars

(***************************************************************************)
(* CircuitBreaker objects on their own: any sequence of record_failure and *)
(* record_success calls, and the clock.                                    *)
(***************************************************************************)
BreakerModels == {"claude-opus-4-6", "gpt-5.2"}

RecordFailure ==
  /\ \E m \in DOMAIN circuit_breakers :
       /\ circuit_breakers[m].failure_count < MaxFailures
       /\ circuit_breakers' =
            [circuit_breakers EXCEPT ![m] = record_failure(circuit_breakers[m], now)]
       /\ streak' = [streak EXCEPT ![m] = @ + 1]
  /\ UNCHANGED <<TASK_MODEL_MAP, llm_deployment_mode, regVars,
                 now, inv, invokes, selected, faults>>
  /\ UNCHANGED agentVars

RecordSuccess ==
  /\ \E m \in DOMAIN circuit_breakers :
       /\ circuit_breakers' =
            [circuit_breakers EXCEPT ![m] = record_success(circuit_breakers[m])]
       /\ streak' = [streak EXCEPT ![m] = 0]
  /\ UNCHANGED <<TASK_MODEL_MAP, llm_deployment_mode, regVars,
                 now, inv, invokes, selected, faults>>
  /\ UNCHANGED agentVars

InitBreaker ==
  /\ TASK_MODEL_MAP = DefaultTaskModelMap
  /\ circuit_breakers = [m \in BreakerModels |-> CircuitBreaker]
  /\ streak = [m \in Models |-> 0]
  /\ llm_deployment_mode = DefaultMode
  /\ InitRegistry
  /\ now = 0
  /\ inv = NoInv
  /\ invokes = 0
  /\ selected = NoSelection
  /\ faults = 0
  /\ InitAgent
  /\ hitl_mode = "semi_auto"

NextBreaker ==
  \/ RecordFailure
  \/ RecordSuccess
  \/ Tick

SpecBreaker == InitBreaker /\ [][NextBreaker]_vars

(***************************************************************************)
(* One tool registry: register, get, list_tools and execute calls.         *)
(***************************************************************************)
InitTools ==
  /\ InitOrch
  /\ InitAgent
  /\ hitl_mode = "semi_auto"
  /\ llm_deployment_mode = DefaultMode

NextRegistry ==
  \/ Register
  \/ Get
  \/ ListTools
  \/ Execute

SpecRegistry == InitTools /\ [][NextRegistry]_vars

\* EXPLORE on long tool plans: callers resume one agent, the model returns a
\* long plan, the tools succeed or fail and the results are saved or not.
InitExplore ==
  /\ InitOrch
  /\ InitAgent
  /\ hitl_mode = "full_auto"
  /\ llm_deployment_mode = DefaultMode

NextExplore ==
  \/ Resume
  \/ ExploreEndLong
  \/ ExecuteEnd
  \/ SaveEnd
  \/ OrchStep

SpecExplore == InitExplore /\ [][NextExplore]_vars

\* One full_auto agent whose model responses are texts.
InitParse ==
  /\ InitOrch
  /\ InitAgent
  /\ hitl_mode = "full_auto"
  /\ llm_deployment_mode = DefaultMode

NextParse ==
  \/ Run
  \/ ObserveParse
  \/ HypothesizeParse
  \/ ExploreParse
  \/ ExecuteEnd
  \/ SaveEnd
  \/ VerifyParse
  \/ SynthesizeParse
  \/ OrchStep

SpecParse == InitParse /\ [][NextParse]_vars

\* The agent under fair scheduling: the event loop resumes a coroutine whose
\* awaited model call, tool call or save has ended, and every model call
\* ends (it returns or fails); callers may stop calling.
Fairness ==
  /\ WF_vars(OrchStep)
  /\ WF_vars(ObserveEnd)
  /\ WF_vars(HypothesizeEnd)
  /\ WF_vars(ExploreEnd)
  /\ WF_vars(ExecuteEnd)
  /\ WF_vars(SaveEnd)
  /\ WF_vars(VerifyEnd)
  /\ WF_vars(SynthesizeEnd)

\* a semi_auto agent: its runs are held, its resumes run the other phases
InitLive == Init /\ hitl_mode = "semi_auto"

SpecLive == InitLive /\ [][Next]_vars /\ Fairness

(***************************************************************************)
(* One server process: two agents, each with the orchestrator it built,    *)
(* and two tools on the module's orchestrator, their invoke calls          *)
(* interleaved at the awaits, and the clock.                               *)
(***************************************************************************)
InitProcess ==
  /\ InitOrch
  /\ InitAgent
  /\ hitl_mode = "semi_auto"
  /\ llm_deployment_mode = DefaultMode

NextProcess ==
  \/ ProcessInvoke
  \/ ProcessPrimaryOk
  \/ ProcessPrimaryFail
  \/ ProcessTrackOk
  \/ ProcessTrackFail
  \/ ProcessFallbackEnd
  \/ Tick

SpecProcess == InitProcess /\ [][NextProcess]_vars

(***************************************************************************)
(* One ModelRegistry at a time: built, then asked.                         *)
(***************************************************************************)
NextModels ==
  \/ NewModelRegistry
  \/ Resolve
  \/ GetSupportedModels

SpecModels == InitTools /\ [][NextModels]_vars

(***************************************************************************)
(* One TokenBucket at a time: built, then consumed from as time passes.    *)
(***************************************************************************)
NextBucket ==
  \/ NewBucket
  \/ Consume

SpecBucket == InitTools /\ [][NextBucket]_vars

(***************************************************************************)
(* The agent endpoints: start and approve requests, one at a time, each on *)
(* the agent it builds.                                                    *)
(***************************************************************************)
NextEndpoints ==
  \/ StartAnalysis
  \/ ApproveHypotheses
  \/ SaveAgent
  \/ ObserveEnd
  \/ HypothesizeEnd
  \/ ExploreEnd
  \/ ExecuteEnd
  \/ SaveEnd
  \/ VerifyEnd
  \/ SynthesizeEnd
  \/ OrchStep

SpecEndpoints == InitTools /\ [][NextEndpoints]_vars

(***************************************************************************)
(* The dead letter queue under two callers of enqueue, dequeue and peek.   *)
(***************************************************************************)
NextDlq ==
  \/ Enqueue
  \/ EnqueueTrim
  \/ Dequeue
  \/ Peek

SpecDlq == InitTools /\ [][NextDlq]_vars

(***************************************************************************)
(* Claims.                                                                 *)
(***************************************************************************)
\* the operation the agent is in, or the last one it ended
LastOp == IF frame.op # "none" THEN frame.op ELSE ret.op

\* the last call has returned or raised
Ended == frame.op = "none" /\ ret.kind # "none"

\* the moves of the documented state machine
C1_AllowedMoves ==
  {<<"idle", "running">>, <<"running", "awaiting_approval">>,
   <<"awaiting_approval", "running">>, <<"running", "completed">>,
   <<"running", "error">>}

\* C1: the agent state only moves along idle -> running -> {awaiting_approval
\* -> running} -> {completed | error}; completed and error are never left,
\* and running is re-entered only from awaiting_approval.
C1_StateMachine ==
  [][state' # state => <<state, state'>> \in C1_AllowedMoves]_vars

C3_ResumeTrace(tr) ==
  /\ Len(tr) >= 3
  /\ tr[1] = "explore"
  /\ tr[Len(tr) - 1] = "verify"
  /\ tr[Len(tr)] = "synthesize"
  /\ \A k \in 2..(Len(tr) - 2) : tr[k] = "execute"

C4_ErrorOnRaise ==
  Ended =>
    /\ state # "running"
    /\ ret.kind = "raised" => state = "error"

\* no external call failed and every executed tool reported success
C5_AllSucceeded ==
  /\ faults = 0
  /\ \A k \in 1..Len(context.tool_results) : context.tool_results[k].success

C5_RunTrace(tr) ==
  /\ Len(tr) >= 5
  /\ tr[1] = "observe"
  /\ tr[2] = "hypothesize"
  /\ C3_ResumeTrace(SubSeq(tr, 3, Len(tr)))

\* C5: with HITL mode full_auto and every Orchestrator and tool call
\* succeeding, run() never enters awaiting_approval, never sets
\* pendingApproval, runs OBSERVE, HYPOTHESIZE, EXPLORE, VERIFY, SYNTHESIZE in
\* order in one call and ends with state completed and a non-empty insight
\* list.
C5_FullAuto ==
  (hitl_mode = "full_auto" /\ ops = 1 /\ LastOp = "run" /\ C5_AllSucceeded) =>
    /\ state # "awaiting_approval"
    /\ pending_approval = NoApproval
    /\ Ended =>
         /\ ret.kind = "returned"
         /\ state = "completed"
         /\ ret.insights # <<>>
         /\ C5_RunTrace(trace)

\* the breaker of model m lets a call through at time t: no record, closed,
\* or open with more than the cooldown elapsed since the last failure
Proceeds(m, t) ==
  \/ m \notin DOMAIN circuit_breakers
  \/ ~circuit_breakers[m].is_open
  \/ /\ circuit_breakers[m].last_failure # NoTime
     /\ t - circuit_breakers[m].last_failure > Cooldown

\* the indexes of the candidates of a task type that differ from `other` and
\* whose breaker lets a call through at time t
C6_Eligible(task_type, other, t) ==
  {k \in 1..Len(TASK_MODEL_MAP[task_type]) :
     /\ TASK_MODEL_MAP[task_type][k] # other
     /\ Proceeds(TASK_MODEL_MAP[task_type][k], t)}

\* C6: one invoke calls at most two models: the selected one and, only if
\* that call fails, one fallback, the first candidate of the task type that
\* differs from the failed model and whose breaker can proceed; the call
\* raises only when the last model call failed; no third model is tried.
C6_SingleFallback ==
  inv.pc # "none" =>
    /\ Len(inv.calls) <= 2
    /\ inv.calls[1] = inv.model
    /\ Len(inv.calls) = 2 =>
         LET t == circuit_breakers[inv.model].last_failure
             eligible == C6_Eligible(inv.task_type, inv.model, t)
         IN  /\ inv.outcomes[1] = "fail"
             /\ eligible # {}
             /\ \E k \in eligible :
                  /\ \A j \in eligible : k <= j
                  /\ inv.calls[2] = TASK_MODEL_MAP[inv.task_type][k]
    /\ inv.pc = "raised" =>
         /\ Len(inv.outcomes) = Len(inv.calls)
         /\ inv.outcomes[Len(inv.outcomes)] = "fail"

\* C7: during an invoke with sensitivity restricted the only model called is
\* the local model, also when its call fails.
C7_RestrictedStaysLocal ==
  (inv.pc # "none" /\ inv.sensitivity = RESTRICTED) =>
    \A k \in 1..Len(inv.calls) : inv.calls[k] = LocalModel

\* C8: select_model with sensitivity restricted returns the local model for
\* every task type, breaker map (the local model's breaker open included)
\* and content of the table.
C8_RestrictedSelectsLocal ==
  selected.sensitivity = RESTRICTED => selected.model = LocalModel

C8_Witness ==
  /\ selected.sensitivity = RESTRICTED
  /\ selected.task_type = "chat"
  /\ TASK_MODEL_MAP # DefaultTaskModelMap
  /\ LocalModel \in DOMAIN circuit_breakers
  /\ circuit_breakers[LocalModel].is_open
  /\ ~Proceeds(LocalModel, now)
  /\ selected.model = LocalModel

\* C9: for a sensitivity other than restricted, select_model returns the
\* earliest candidate of the task type whose breaker can proceed (no record
\* counts as able to proceed), and the first candidate if none can.
C9_FirstAvailable ==
  (/\ selected # NoSelection
   /\ selected.sensitivity # RESTRICTED
   /\ selected.task_type \in DOMAIN TASK_MODEL_MAP
   /\ TASK_MODEL_MAP[selected.task_type] # <<>>) =>
    LET cands == TASK_MODEL_MAP[selected.task_type]
        able == {k \in 1..Len(cands) : Proceeds(cands[k], now)}
    IN  IF able = {} THEN selected.model = cands[1]
        ELSE \E k \in able :
               /\ \A j \in able : k <= j
               /\ selected.model = cands[k]

C9_Witness ==
  /\ TASK_MODEL_MAP = DefaultTaskModelMap
  /\ selected.task_type = "summarization"
  /\ selected.sensitivity = "public"
  /\ "claude-opus-4-6" \in DOMAIN circuit_breakers
  /\ ~Proceeds("claude-opus-4-6", now)
  /\ "gemini-3.0-pro" \in DOMAIN circuit_breakers
  /\ circuit_breakers["gemini-3.0-pro"].is_open
  /\ "gpt-5.2" \notin DOMAIN circuit_breakers
  /\ selected.model = "gemini-3.0-pro"

\* C10: for every breaker, after any sequence of recordFailure and
\* recordSuccess calls, isOpen implies failureCount >= threshold.
C10_OpenImpliesThreshold ==
  \A m \in DOMAIN circuit_breakers :
    circuit_breakers[m].is_open =>
      circuit_breakers[m].failure_count >= failure_threshold

C10_Witness ==
  /\ circuit_breakers["claude-opus-4-6"].is_open
  /\ circuit_breakers["claude-opus-4-6"].failure_count = failure_threshold
  /\ ~circuit_breakers["gpt-5.2"].is_open
  /\ circuit_breakers["gpt-5.2"].failure_count = 0
  /\ circuit_breakers["gpt-5.2"].last_failure # NoTime

\* the failures recorded for m since its last recorded success reach the
\* threshold
C11_Tripped(m) == streak[m] >= failure_threshold

\* C11: after threshold consecutive recordFailure calls on a breaker with no
\* recordSuccess in between, canProceed() is false while at most 60s have
\* passed since the last failure; a recordSuccess then sets failureCount to 0
\* and isOpen to false and canProceed() is true; with fewer than threshold
\* consecutive failures canProceed() is true.
C11_TripAndReset ==
  [][\A m \in DOMAIN circuit_breakers :
       LET cb == circuit_breakers[m]
           cb2 == circuit_breakers'[m]
       IN  /\ (C11_Tripped(m) /\ now - cb.last_failure <= Cooldown)
                => ~can_proceed(cb, now)
           /\ ~C11_Tripped(m) => can_proceed(cb, now)
           /\ (streak'[m] >= failure_threshold /\ now' - cb2.last_failure <= Cooldown)
                => ~can_proceed(cb2, now')
           /\ streak'[m] < failure_threshold => can_proceed(cb2, now')
           /\ (C11_Tripped(m) /\ streak'[m] = 0) =>
                /\ cb2.failure_count = 0
                /\ ~cb2.is_open
                /\ can_proceed(cb2, now')]_vars

C11_Witness ==
  /\ streak["claude-opus-4-6"] = failure_threshold
  /\ circuit_breakers["claude-opus-4-6"].last_failure = 0
  /\ now = Cooldown
  /\ ~can_proceed(circuit_breakers["claude-opus-4-6"], now)
  /\ streak["gpt-5.2"] = 0
  /\ circuit_breakers["gpt-5.2"].last_failure = 0
  /\ circuit_breakers["gpt-5.2"].failure_count = 0
  /\ can_proceed(circuit_breakers["gpt-5.2"], now)

\* C12: an open breaker refuses calls while the time since its last failure
\* is at most 60s, exactly 60s included, and lets them through once more than
\* 60s have passed, with no recordSuccess: it is still open and its failure
\* count is unchanged.
C12_Cooldown ==
  \A m \in DOMAIN circuit_breakers :
    LET cb == circuit_breakers[m]
    IN  cb.is_open =>
          /\ cb.last_failure # NoTime
          /\ can_proceed(cb, now) <=> (now - cb.last_failure > Cooldown)

C12_Witness ==
  /\ circuit_breakers["gpt-5.2"].is_open
  /\ circuit_breakers["gpt-5.2"].failure_count = failure_threshold
  /\ streak["gpt-5.2"] = failure_threshold
  /\ now - circuit_breakers["gpt-5.2"].last_failure = Cooldown + 1
  /\ can_proceed(circuit_breakers["gpt-5.2"], now)
  /\ circuit_breakers["claude-opus-4-6"].is_open
  /\ now - circuit_breakers["claude-opus-4-6"].last_failure = 0
  /\ ~can_proceed(circuit_breakers["claude-opus-4-6"], now)

\* the invoke in flight has returned or raised
C13_InvokeEnded == inv.pc \in {"returned", "raised"}

\* C13: every model call that fails inside invoke, the selected model's and
\* the fallback's alike, has record_failure called on the breaker of the
\* model that was called before invoke returns or raises.
C13_FailuresRecorded ==
  C13_InvokeEnded =>
    \A k \in 1..Len(inv.outcomes) :
      inv.outcomes[k] = "fail" =>
        \E j \in 1..Len(inv.recorded) : inv.recorded[j] = <<inv.calls[k], "failure">>

\* C14: when a model call made by invoke succeeds, invoke calls
\* record_success on that model's breaker, tracks usage once for that model
\* and returns that model's content; the model gets no record_failure for
\* this invoke, also when the usage tracker fails, and no fallback call
\* follows the successful call.
C14_SuccessRecorded ==
  C13_InvokeEnded =>
    \A k \in 1..Len(inv.outcomes) :
      inv.outcomes[k] = "ok" =>
        /\ \E j \in 1..Len(inv.recorded) : inv.recorded[j] = <<inv.calls[k], "success">>
        /\ Cardinality({j \in 1..Len(inv.tracked) : inv.tracked[j] = inv.calls[k]}) = 1
        /\ inv.pc = "returned"
        /\ inv.result = inv.calls[k]
        /\ \A j \in 1..Len(inv.recorded) : inv.recorded[j] # <<inv.calls[k], "failure">>
        /\ k = Len(inv.calls)

\* C15: in a deployment mode other than direct, a model the active
\* provider gateway does not support is called through the direct gateway,
\* with the model id the model registry resolves for the direct gateway.
C15_DirectFallback ==
  (inv.pc # "none" /\ llm_deployment_mode # "direct") =>
    \A k \in 1..Len(inv.calls) :
      ~supports_model(get_llm_provider(llm_deployment_mode), inv.calls[k]) =>
        /\ inv.sent[k].gateway = "direct"
        /\ inv.sent[k].model_id = resolve(inv.calls[k], "direct")

\* the name passed to the last execute call was a key of the tool map
C16_Known ==
  \E k \in 1..Len(reg.before) : reg.before[k].name = reg.tool_name

\* C16: execute(name, ...) with a name that is not registered raises
\* nothing, calls no tool, leaves the tool map unchanged and returns a
\* ToolResult with tool_name = name, success false and the error
\* "Unknown tool: " followed by the name.
C16_UnknownTool ==
  (reg.op = "execute" /\ ~C16_Known) =>
    /\ reg.kind = "returned"
    /\ reg.called = <<>>
    /\ _tools = reg.before
    /\ reg.result.tool_name = reg.tool_name
    /\ reg.result.success = FALSE
    /\ reg.result.error = <<"Unknown tool: ", reg.tool_name>>

\* C17: no exception escapes execute; for a registered tool whose execute
\* raises, whatever the parameters, execute returns a ToolResult with
\* success false and the exception's message as error, and the registry is
\* left as it was, usable for later calls.
C17_NoEscape ==
  reg.op = "execute" =>
    /\ reg.kind = "returned"
    /\ _tools = reg.before
    /\ reg.outcome = "raises" =>
         reg.result = ToolResult(reg.tool_name, FALSE, <<"boom">>)

\* C18: every ToolResult execute returns, built by the registry or passed
\* through from a tool, has an error when success is false and none when
\* success is true.
C18_ErrorIffFailed ==
  (reg.op = "execute" /\ reg.kind = "returned") =>
    (reg.result.success <=> reg.result.error = NoError)

\* the tool most recently registered under a name in a sequence of register
\* calls, NoTool if there is none
C19_Latest(calls, name) ==
  LET at == {k \in 1..Len(calls) : calls[k].name = name}
  IN  IF at = {} THEN NoTool
      ELSE calls[CHOOSE k \in at : \A j \in at : j <= k]

\* C19: after any sequence of register calls, get(name) is the tool most
\* recently registered under the name (absent if none), list_tools has one
\* entry per distinct registered name, execute(name) dispatches to that most
\* recent tool, and registering a tool again changes nothing.
C19_LastWins ==
  /\ \A name \in ToolNames : get(_tools, name) = C19_Latest(registered, name)
  /\ Len(list_tools(_tools)) =
       Cardinality({registered[k].name : k \in 1..Len(registered)})
  /\ {list_tools(_tools)[k] : k \in 1..Len(_tools)} =
       {registered[k].name : k \in 1..Len(registered)}
  /\ (reg.op = "get") => reg.result = C19_Latest(registered, reg.tool_name)
  /\ (reg.op = "list_tools") =>
       /\ Len(reg.result) = Cardinality({registered[k].name : k \in 1..Len(registered)})
       /\ \A k \in 1..Len(registered) :
            \E j \in 1..Len(reg.result) : reg.result[j] = registered[k].name
  /\ (reg.op = "execute" /\ reg.called # <<>>) =>
       reg.called = <<C19_Latest(registered, reg.tool_name)>>
  /\ \A tool \in ToolObjects :
       register(register(_tools, tool), tool) = register(_tools, tool)

C19_Witness ==
  /\ registered = <<Tool(1, "cluster_analysis"), Tool(3, "sentiment_analysis"),
                    Tool(2, "cluster_analysis")>>
  /\ list_tools(_tools) = <<"cluster_analysis", "sentiment_analysis">>
  /\ get(_tools, "cluster_analysis") = Tool(2, "cluster_analysis")
  /\ reg.op = "execute"
  /\ reg.tool_name = "cluster_analysis"
  /\ reg.called = <<Tool(2, "cluster_analysis")>>
  /\ reg.result.success

\* tool names of a list of calls or of tool results
C20_Names(calls) == [k \in 1..Len(calls) |-> calls[k].tool_name]

\* positions of a plan that hold the first occurrence of their tool name
C20_Firsts(plan) ==
  {k \in 1..Len(plan) : \A j \in 1..(k - 1) : plan[j].tool_name # plan[k].tool_name}

\* the names a plan should have executed: first occurrences in plan order,
\* the first five of them
C20_Expected(plan) ==
  LET F == C20_Firsts(plan)
      n == IF Cardinality(F) < 5 THEN Cardinality(F) ELSE 5
  IN  [i \in 1..n |->
         plan[CHOOSE k \in F : Cardinality({j \in F : j <= k}) = i].tool_name]

\* the names of the calls EXPLORE has executed since its tool loop began
C20_Executed ==
  C20_Names(SubSeq(context.tool_results, frame.base + 1,
                   Len(context.tool_results)))

\* C20: EXPLORE executes at most 5 calls and at most one per tool name: the
\* calls it sets out to execute are the first occurrences of each name in
\* plan order, cut to the first 5; what it has executed is always the
\* beginning of that list, and the whole list once EXPLORE has handed over
\* to VERIFY.
C20_DedupCap ==
  frame.pc \in {"execute", "save", "verify", "synthesize"} =>
    LET expected == C20_Expected(frame.plan)
        executed == C20_Executed
        todo == C20_Names(frame.tool_calls)
    IN  /\ Len(executed) <= 5
        /\ \A i, j \in 1..Len(executed) : executed[i] = executed[j] => i = j
        /\ Len(executed) <= Len(expected)
        /\ executed = SubSeq(expected, 1, Len(executed))
        /\ frame.pc = "execute" => executed \o todo = expected
        /\ frame.pc = "save" => SubSeq(executed, 1, Len(executed) - 1) \o todo = expected
        /\ frame.pc \in {"verify", "synthesize"} => executed = expected

\* the plan of 8 calls with 3 repeated names has been executed: 5 calls, one
\* per name, after results of an earlier call of the agent
C20_Witness ==
  /\ frame.pc = "verify"
  /\ Len(frame.plan) = 8
  /\ Cardinality(C20_Firsts(frame.plan)) = 5
  /\ frame.base > 0
  /\ C20_Executed = <<"cluster_analysis", "sentiment_analysis",
                      "cooccurrence_analysis", "causal_chain_analysis",
                      "contradiction_detection">>

\* the number of entries of a sequence equal to x
C21_Count(seq, x) == Cardinality({k \in 1..Len(seq) : seq[k] = x})

\* the first position of a plan that names the tool
C21_FirstAt(plan, name) ==
  CHOOSE k \in 1..Len(plan) :
    /\ plan[k].tool_name = name
    /\ \A j \in 1..(k - 1) : plan[j].tool_name # name

\* while EXPLORE is in its tool loop or has handed over: every started call
\* but the one in flight has appended its result, and the results appended
\* follow the order of the plan
C21_Appended ==
  frame.pc \in {"execute", "save", "verify", "synthesize"} =>
    LET executed == C20_Executed
        started == C21_Count(trace, "execute")
    IN  /\ started = Len(executed) + (IF frame.pc = "execute" THEN 1 ELSE 0)
        /\ \A i \in 1..Len(executed) :
             \E k \in 1..Len(frame.plan) : frame.plan[k].tool_name = executed[i]
        /\ \A i, j \in 1..Len(executed) :
             i < j => C21_FirstAt(frame.plan, executed[i])
                        < C21_FirstAt(frame.plan, executed[j])

\* a step of a call in progress that changes context.tool_results: the call
\* in flight returns and its one result, failed or not, is appended
C21_Append ==
  (frame.op # "none" /\ context'.tool_results # context.tool_results) =>
    /\ frame.pc = "execute"
    /\ frame'.pc # "execute" \/ frame'.tool_calls = Tail(frame.tool_calls)
    /\ Len(context'.tool_results) = Len(context.tool_results) + 1
    /\ SubSeq(context'.tool_results, 1, Len(context.tool_results))
         = context.tool_results
    /\ context'.tool_results[Len(context'.tool_results)].tool_name
         = Head(frame.tool_calls).tool_name

\* C21: EXPLORE runs its tool calls one at a time in planned order: a call
\* starts only after the previous one returned, each executed call appends
\* exactly one result, failed calls included, and after EXPLORE the new
\* suffix of context.tool_results lists the executed calls in plan order.
C21_OneAtATime == []C21_Appended /\ [][C21_Append]_vars

\* EXPLORE has handed over to VERIFY after five calls of which the second
\* and the fourth failed
C21_Witness ==
  /\ frame.pc = "verify"
  /\ Len(C20_Executed) = 5
  /\ Len(context.tool_results) = frame.base + 5
  /\ context.tool_results[frame.base + 1].success
  /\ ~context.tool_results[frame.base + 2].success
  /\ ~context.tool_results[frame.base + 4].success
  /\ C21_Count(trace, "execute") = 5

\* this step is the return of a tool call with success = False
C22_Failed ==
  /\ frame.pc = "execute"
  /\ Len(context'.tool_results) = Len(context.tool_results) + 1
  /\ ~context'.tool_results[Len(context'.tool_results)].success

\* C22: a tool call that returns success = False does not stop the
\* investigation: its result is not handed to _save_tool_result, the agent
\* stays running with nothing raised or returned, and the next planned call
\* starts, or VERIFY when it was the last (SYNTHESIZE follows VERIFY).
C22_FailedToolContinues ==
  [][C22_Failed =>
       /\ frame'.pc # "save"
       /\ state' = "running"
       /\ frame'.tool_calls = Tail(frame.tool_calls)
       /\ IF frame'.tool_calls = <<>>
          THEN /\ frame'.pc = "verify"
               /\ trace' = Append(trace, "verify")
               /\ ret' = ret
          ELSE IF Head(frame'.tool_calls).parameters = "bad"
          THEN ret'.kind = "raised"
          ELSE /\ frame'.pc = "execute"
               /\ trace' = Append(trace, "execute")
               /\ ret' = ret]_vars

\* an investigation completed although its first tool call failed: the
\* second call, VERIFY and SYNTHESIZE ran after it
C22_Witness ==
  /\ state = "completed"
  /\ ret.kind = "returned"
  /\ Len(context.tool_results) >= 2
  /\ ~context.tool_results[1].success
  /\ C21_Count(trace, "execute") >= 2
  /\ C21_Count(trace, "verify") = 1
  /\ C21_Count(trace, "synthesize") = 1

\* json.loads of a response from which white space and a fence written as
\* a prefix and a suffix are removed: what a reader of the phases means by
\* a response that is JSON
C23_Json(response) ==
  LET t == strip(response, Whitespace)
      u == IF Len(t) >= 2 /\ t[1] = "bq" /\ t[2] = "j" THEN SubSeq(t, 3, Len(t))
           ELSE t
      w == IF u # <<>> /\ u[Len(u)] = "bq" THEN SubSeq(u, 1, Len(u) - 1) ELSE u
  IN  json_loads(w)

\* this step is a phase reading a response that cannot be parsed as JSON
C23_ReadsNonJson ==
  /\ InvokeEnded
  /\ inv.pc = "returned"
  /\ reading'.phase = frame.pc
  /\ C23_Json(reading'.text) \in {"JSONDecodeError", "RecursionError"}

\* C23: a response that cannot be parsed as JSON makes no phase raise; each
\* yields its default: OBSERVE and HYPOTHESIZE the one-element list of the
\* response cut to 200 characters, EXPLORE the plan (cluster_analysis,
\* sentiment_analysis), VERIFY one inconclusive verdict of score 0.5 per
\* hypothesis in order, SYNTHESIZE one insight of grounding score 0.5.
C23_NonJsonDefaults ==
  [][C23_ReadsNonJson =>
       /\ ret'.kind # "raised"
       /\ frame.pc = "observe" => context'.observations = Degraded
       /\ frame.pc = "hypothesize" => context'.hypotheses = Degraded
       /\ frame.pc = "explore" =>
            /\ frame'.plan = FallbackPlan
            /\ frame'.tool_calls = FallbackPlan
       /\ frame.pc = "verify" =>
            /\ reading'.verification =
                 [k \in 1..Len(frame.hypotheses) |->
                    [hypothesis |-> frame.hypotheses[k], support_score |-> 5,
                     supporting_evidence |-> <<>>, counter_evidence |-> <<>>,
                     verdict |-> "inconclusive"]]
            /\ frame'.pc = "synthesize"
       /\ frame.pc = "synthesize" =>
            /\ insights' = <<AgentInsight("default", 5)>>
            /\ ret'.insights = insights'
            /\ state' = "completed"]_vars

\* this step is a phase taking the response its model call returned
C24_ReadsResponse ==
  /\ InvokeEnded
  /\ inv.pc = "returned"
  /\ frame.pc \in {"observe", "hypothesize", "explore", "verify", "synthesize"}

\* C24: no model response aborts a phase: whatever the shape of the
\* response, the phase that takes it recovers locally, nothing is raised to
\* the caller and the agent does not enter error.
C24_NoAbort ==
  [][C24_ReadsResponse => (ret'.kind # "raised" /\ state' # "error")]_vars

\* this step is a phase taking the failure of its model call
C25_CallFailed ==
  /\ InvokeEnded
  /\ inv.pc = "raised"
  /\ frame.pc \in {"observe", "hypothesize", "explore", "verify", "synthesize"}

\* the phase goes on with its default, as for a response that is no JSON
C25_Default ==
  /\ ret'.kind # "raised"
  /\ state' # "error"
  /\ frame.pc = "observe" => context'.observations = Degraded
  /\ frame.pc = "hypothesize" => context'.hypotheses = Degraded
  /\ frame.pc = "explore" => frame'.plan = FallbackPlan
  /\ frame.pc = "verify" => frame'.pc = "synthesize"
  /\ frame.pc = "synthesize" =>
       /\ insights' = <<AgentInsight("default", DefaultScore)>>
       /\ state' = "completed"

\* every model call that failed in the invoke has a failure recorded on the
\* breaker of the model called
C25_Counted ==
  \A k \in 1..Len(inv.outcomes) :
    inv.outcomes[k] = "fail" =>
      Cardinality({j \in 1..Len(inv.recorded) :
                     inv.recorded[j] = <<inv.calls[k], "failure">>}) = 1

\* C25: a failed or timed-out model call inside a phase does not crash the
\* phase: the phase completes with its degraded default, and the failure is
\* counted by the circuit breaker like any other failed call.
C25_FailedCallDegrades ==
  [][C25_CallFailed => (C25_Default /\ C25_Counted)]_vars

\* the place of a phase in the order of the investigation; the tool calls
\* belong to EXPLORE
C26_Rank(p) ==
  CASE p = "observe" -> 1
    [] p = "hypothesize" -> 2
    [] p \in {"explore", "execute"} -> 3
    [] p = "verify" -> 4
    [] p = "synthesize" -> 5

C26_NonDecreasing(seq) ==
  \A i, j \in 1..Len(seq) : i < j => C26_Rank(seq[i]) <= C26_Rank(seq[j])

\* the agent has been used for one investigation: one call, or a run held
\* for approval and its resume
C26_OneInvestigation ==
  \/ ops = 1
  \/ ops = 2 /\ call.op = "resume" /\ call.from = "awaiting_approval"

\* the log of one investigation: phase names in order, an entry for every
\* phase that ran, and for the tools of EXPLORE one start entry each and one
\* completion entry for each that has ended
C26_Log ==
  C26_OneInvestigation =>
    /\ C26_NonDecreasing(logs)
    /\ C26_NonDecreasing(trace)
    /\ \A k \in 1..Len(trace) :
         \E j \in 1..Len(logs) : C26_Rank(logs[j]) = C26_Rank(trace[k])
    /\ \A k \in 1..Len(trace) :
         (trace[k] # "execute" /\ k > 1) =>
           C26_Rank(trace[k]) = C26_Rank(trace[k - 1]) + 1
    /\ frame.pc \in {"execute", "save", "verify", "synthesize"} =>
         C21_Count(logs, "explore") =
           1 + 2 * C21_Count(trace, "execute")
             - (IF frame.pc \in {"execute", "save"} THEN 1 ELSE 0)

\* a step of a call in progress that starts a phase or a tool call: the
\* model call or the tool call (and its save) before it has ended
C26_Start ==
  (frame.op # "none" /\ frame'.op # "none" /\ trace' # trace) =>
    /\ trace' = Append(trace, frame'.pc)
    /\ \/ InvokeEnded /\ frame.pc \in {"observe", "hypothesize", "explore",
                                          "verify"}
       \/ frame.pc \in {"execute", "save"} /\ inv.pc = "none"
    /\ inv'.pc \in {"none", "primary"}

\* C26: within one investigation the phases run in the order OBSERVE,
\* HYPOTHESIZE, EXPLORE, VERIFY, SYNTHESIZE, none starting before the calls
\* of the previous one have returned; the phase names of the log entries are
\* non-decreasing in that order, every phase that ran has an entry, and each
\* tool has its start entry before its completion entry and before the next
\* tool's start entry.
C26_PhaseOrder == []C26_Log /\ [][C26_Start]_vars

\* a run held for approval and resumed has completed: all five phases ran
\* and logged, two tools were executed
C26_Witness ==
  /\ ops = 2
  /\ call.op = "resume"
  /\ call.from = "awaiting_approval"
  /\ state = "completed"
  /\ trace = <<"explore", "execute", "execute", "verify", "synthesize">>
  /\ logs = <<"observe", "observe", "hypothesize", "hypothesize",
              "explore", "explore", "explore", "explore", "explore",
              "verify", "verify", "synthesize", "synthesize">>

\* a call of run or resume_after_approval is in progress
C27_InCall == frame.op # "none"

\* the three outcomes of a call
C27_Completed ==
  ret.kind = "returned" /\ state = "completed" /\ ret.insights = insights

C27_Held ==
  /\ ret.kind = "returned"
  /\ state = "awaiting_approval"
  /\ ret.insights = <<>>
  /\ pending_approval # NoApproval

C27_Raised == ret.kind = "raised"

\* the call has ended in exactly one of the three outcomes
C27_Outcome ==
  /\ frame.op = "none"
  /\ inv.pc = "none"
  /\ Cardinality({o \in {"completed", "held", "raised"} :
                    \/ o = "completed" /\ C27_Completed
                    \/ o = "held" /\ C27_Held
                    \/ o = "raised" /\ C27_Raised}) = 1

\* C27: provided every model call and tool call eventually returns or
\* fails, every run and every resume_after_approval eventually ends, in
\* exactly one of three outcomes: the insights with state completed, an
\* empty list with state awaiting_approval and a pending approval, or an
\* exception raised to the caller.
C27_Terminates ==
  /\ C27_InCall ~> C27_Outcome
  /\ [](frame.op = "none" => (ret.kind = "none" \/ C27_Outcome))

\* a held run: the second of the three outcomes
C27_Witness ==
  /\ ops = 1
  /\ call.op = "run"
  /\ frame.op = "none"
  /\ C27_Held
  /\ ~C27_Completed
  /\ ~C27_Raised

\* the call c selected a model that no orchestrator of the process held an
\* open breaker for, or every candidate of the task type was open
C28_Skipped(c) ==
  \/ c.model \notin c.open
  \/ \A i \in DOMAIN Candidates(ProcessTaskType) :
       Candidates(ProcessTaskType)[i] \in c.open

\* C28: the breakers are one state shared by every invoke call of the
\* process: a call never selects a model whose breaker another agent run, or
\* a tool's own model calls, had opened when the call selected.
C28_SharedBreakers ==
  \A task \in Tasks :
    process.calls[task].pc = "primary" => C28_Skipped(process.calls[task])

\* the breaker of model m in orchestrator o counts the failures recorded for
\* m since its last recorded success, and is open only at the threshold
C29_Counted(o, m) ==
  IF m \in DOMAIN process.circuit_breakers[o]
  THEN LET cb == process.circuit_breakers[o][m]
       IN  /\ cb.failure_count = process.streak[o][m]
           /\ cb.is_open => cb.failure_count >= failure_threshold
  ELSE process.streak[o][m] = 0

\* a step keeps every breaker record of every orchestrator in its map
C29_Kept ==
  \A o \in Orchestrators :
    DOMAIN process.circuit_breakers[o] \subseteq DOMAIN process'.circuit_breakers[o]

\* C29: under every interleaving of concurrent invoke calls on one
\* orchestrator, suspended only at the model call and at track_usage, no
\* record_failure or record_success is lost: failure_count equals the
\* failures recorded for the model since its last recorded success, the map
\* holds one breaker record per model name and keeps it, and is_open implies
\* failure_count >= failure_threshold.
C29_AtomicUpdates ==
  /\ [](\A o \in Orchestrators :
          /\ DOMAIN process.circuit_breakers[o] \subseteq Models
          /\ \A m \in Models : C29_Counted(o, m))
  /\ [][C29_Kept]_vars

\* two calls on the module's orchestrator, in flight at the same time, have
\* both recorded a failure of the same model, and its breaker is open
C29_Witness ==
  LET a == process.calls["tool_1"]
      b == process.calls["tool_2"]
  IN  /\ a.pc = "fallback"
      /\ b.pc = "fallback"
      /\ a.model = b.model
      /\ process.circuit_breakers["llm_orchestrator"][a.model].is_open
      /\ process.streak["llm_orchestrator"][a.model] = failure_threshold

\* the score the insight of a returned item must carry, in tenths
C30_Expected(raw) ==
  IF raw = <<>> THEN 5
  ELSE IF raw[1] > 10 THEN 10
  ELSE IF raw[1] < 0 THEN 0
  ELSE raw[1]

\* the insights SYNTHESIZE can produce from the responses
C30_Produced ==
  {[k \in 1..Len(l) |-> AgentInsight("parsed", C30_Expected(l[k]))] :
     l \in InsightLists}
    \cup {<<AgentInsight("default", 5)>>}

C30_InRange ==
  \A k \in DOMAIN insights :
    insights[k].grounding_score >= 0 /\ insights[k].grounding_score <= 10

\* a step in which SYNTHESIZE completes leaves the expected insights
C30_Synthesized ==
  (frame.pc = "synthesize" /\ state' = "completed") => insights' \in C30_Produced

\* C30: every insight SYNTHESIZE produces has its grounding_score within
\* [0, 1] for every numeric value returned: a value above 1 becomes 1.0, a
\* value below 0 becomes 0.0, a value inside the range is kept and a missing
\* value becomes 0.5.
C30_ScoreClamped ==
  []C30_InRange /\ [][C30_Synthesized]_vars

\* SYNTHESIZE completed on a list holding values above 1, below 0, on both
\* ends of the range and inside it
C30_Witness ==
  /\ state = "completed"
  /\ Len(insights) = 5
  /\ [k \in 1..5 |-> insights[k].grounding_score] = <<0, 10, 10, 0, 7>>

\* the keyword arguments kwargs satisfy the declared parameters of the tool:
\* every required parameter is passed, and every declared parameter passed
\* has the declared type and, where an enum is declared, a value of it
C31_Valid(tool_name, kwargs) ==
  \A p \in parameters(tool_name) :
    /\ p.required => \E k \in kwargs : k.name = p.name
    /\ \A k \in kwargs :
         k.name = p.name =>
           /\ k.type = p.type
           /\ p.enum # {} => k.value \in p.enum

\* C31: a tool is dispatched only with validated parameters: execute never
\* calls a tool's execute with a required parameter missing, a value outside
\* a declared enum or a value of the wrong declared type; such a call
\* returns a failed ToolResult instead.
C31_ValidatedDispatch ==
  (reg.op = "execute" /\ ~C31_Valid(reg.tool_name, reg.kwargs)) =>
    /\ reg.called = <<>>
    /\ reg.kind = "returned"
    /\ ~reg.result.success

\* the modes resolve knows a field for
C32_Modes == {"direct", "aws_bedrock", "azure_ai_foundry", "gcp_vertex_ai", "local"}

\* what resolve must return for the last call
C32_Resolved ==
  LET r == model_registry
      name == r.logical_model
      mode == r.deployment_mode
  IN  r.op = "resolve" =>
        /\ (name \notin Models \cup DOMAIN r.custom_mappings) => r.resolved = None
        /\ mode \notin C32_Modes => r.resolved = None
        /\ (name \in DOMAIN r.custom_mappings /\ mode \in C32_Modes) =>
             r.resolved = mode_to_field(r.custom_mappings[name])[mode]
        /\ (name \in Models \ DOMAIN r.custom_mappings) =>
             r.resolved = resolve(name, mode)

C32_Supported ==
  LET r == model_registry
  IN  r.op = "get_supported_models" =>
        /\ r.supported =
             {name \in LogicalNames :
                ModelRegistry_resolve(r._mappings, name, r.deployment_mode) # None}
        /\ r.deployment_mode \notin C32_Modes => r.supported = {}

\* C32: ModelRegistry.resolve is a total lookup: absent (None) for an unknown
\* logical name, for an unknown deployment mode and for a known model with
\* no entry for the mode; a custom mapping replaces the default entry of its
\* logical name as a whole; get_supported_models(mode) is exactly the set of
\* the names resolve(name, mode) is not absent for.
C32_TotalLookup == C32_Resolved /\ C32_Supported

\* resolve on a registry whose custom mapping of a default model leaves out
\* a mode the default entry had
C32_Witness ==
  /\ model_registry.op = "resolve"
  /\ model_registry.logical_model \in DOMAIN model_registry.custom_mappings
  /\ model_registry.logical_model \in Models
  /\ model_registry.deployment_mode = "aws_bedrock"
  /\ model_registry.resolved = None

\* the count stays within [0, capacity]
C33_InRange == bucket.tokens >= 0 /\ bucket.tokens <= bucket.capacity

\* consume returned true exactly when a token was there after the refill,
\* and took exactly one
C33_Consumed ==
  bucket.consumed > 0 =>
    LET avail == IF bucket.before + bucket.elapsed * bucket.refill_rate
                      > bucket.capacity
                 THEN bucket.capacity
                 ELSE bucket.before + bucket.elapsed * bucket.refill_rate
    IN  /\ bucket.result = (avail >= OneToken)
        /\ bucket.tokens = IF bucket.result THEN avail - OneToken ELSE avail

\* a bucket built from capacity and refill rate alone starts full, and its
\* first consume succeeds
C33_Full ==
  bucket.built = "defaults" =>
    /\ bucket.consumed = 0 => bucket.tokens = bucket.capacity
    /\ bucket.consumed > 0 => bucket.first

\* C33: a TokenBucket created with only capacity and refill rate starts full
\* (tokens = capacity), so the first consume on a new bucket succeeds; after
\* any sequence of consume calls the count stays within [0, capacity]; and
\* consume returns true exactly when at least one token is available after
\* the refill, removing exactly one.
C33_StartsFull == C33_Full /\ C33_InRange /\ C33_Consumed

\* a step in which invoke chooses its primary model: the model can proceed
\* if any candidate can, and is the first candidate otherwise
C34_Primary ==
  (inv.pc = "none" /\ inv'.pc = "primary" /\ inv'.sensitivity # RESTRICTED) =>
    LET cands == Candidates(inv'.task_type)
    IN  IF \E i \in DOMAIN cands : Proceeds(cands[i], now)
        THEN Proceeds(inv'.model, now)
        ELSE inv'.model = cands[1]

\* a step in which invoke chooses its fallback model, after the failure was
\* recorded: the fallback can proceed
C34_Fallback ==
  (inv.pc # "fallback" /\ inv'.pc = "fallback") =>
    /\ inv'.fallback # inv'.model
    /\ Available(circuit_breakers', now', inv'.fallback)

\* C34: for a sensitivity other than restricted, invoke calls a model whose
\* breaker cannot proceed only when every candidate of the task type cannot
\* proceed, and then it calls the first candidate; when a candidate can
\* proceed, neither the primary nor the fallback call goes to a model whose
\* breaker cannot proceed at the moment it is chosen.
C34_RoutesAroundOpen == [][C34_Primary /\ C34_Fallback]_vars

\* a call in flight on a model whose breaker cannot proceed: every candidate
\* was open when it was chosen
C34_Witness ==
  /\ inv.pc = "primary"
  /\ inv.sensitivity # RESTRICTED
  /\ ~Proceeds(inv.model, now)

\* a fallback call in flight that passed over an open candidate
C34_WitnessFallback ==
  /\ inv.pc = "fallback"
  /\ \E i \in DOMAIN Candidates(inv.task_type) :
       /\ Candidates(inv.task_type)[i] \notin {inv.model, inv.fallback}
       /\ ~Proceeds(Candidates(inv.task_type)[i], now)

\* the breaker of model m in orchestrator o is half-open in process p at
\* time t: open, with more than the cooldown elapsed since its last failure
C35_HalfOpen(p, o, m, t) ==
  /\ m \in DOMAIN p.circuit_breakers[o]
  /\ p.circuit_breakers[o][m].is_open
  /\ p.circuit_breakers[o][m].last_failure # NoTime
  /\ t - p.circuit_breakers[o][m].last_failure > Cooldown

\* what a step does to a breaker that is half-open before it
C35_Step ==
  \A o \in Orchestrators, m \in Models :
    C35_HalfOpen(process, o, m, now) =>
      LET cb == process'.circuit_breakers[o][m]
      IN  CASE process'.streak[o][m] > process.streak[o][m] ->
                 /\ cb.last_failure = now
                 /\ cb.is_open
                 /\ \A t \in now..(now + Cooldown) : ~can_proceed(cb, t)
                 /\ can_proceed(cb, now + Cooldown + 1)
            [] process'.streak[o][m] = 0 -> ~cb.is_open /\ can_proceed(cb, now')
            [] OTHER -> can_proceed(cb, now') /\ cb = process.circuit_breakers[o][m]

\* a call selects a half-open model as any other model that can proceed
C35_Passes ==
  \A task \in Tasks :
    (process.calls[task].pc = "none" /\ process'.calls[task].pc = "primary"
       /\ C35_HalfOpen(process, llm(task), Candidates(ProcessTaskType)[1], now))
      => process'.calls[task].model = Candidates(ProcessTaskType)[1]

\* C35: when a breaker is open and its cooldown has elapsed (half-open), a
\* further record_failure refreshes last_failure and makes can_proceed false
\* again for the next 60 s, a record_success closes the breaker, and until
\* one of the two is recorded can_proceed stays true for every caller, so
\* any number of concurrent calls pass a half-open breaker.
C35_HalfOpenBreaker == [][C35_Step /\ C35_Passes]_vars

\* two calls in flight at once on a model whose breaker is half-open
C35_Witness ==
  /\ process.calls["tool_1"].pc = "primary"
  /\ process.calls["tool_2"].pc = "primary"
  /\ process.calls["tool_1"].model = process.calls["tool_2"].model
  /\ C35_HalfOpen(process, "llm_orchestrator", process.calls["tool_1"].model, now)

\* C36: in every state reachable by run and resume_after_approval calls on
\* one agent, calls that raise and repeated run calls included,
\* pending_approval is set exactly when the state is awaiting_approval.
C36_PendingIffAwaiting ==
  (pending_approval # NoApproval) <=> (state = "awaiting_approval")

\* an approve request resumed an agent only from a stored awaiting_approval
C37_FromPause ==
  agent_store.request.op = "approve"
    => agent_store.request.loaded.state = "awaiting_approval"

\* what is stored for an investigation that is no longer paused stays
C37_Kept ==
  \A agent_id \in DOMAIN agent_store.saved :
    agent_store.saved[agent_id].state # "awaiting_approval"
      => /\ agent_id \in DOMAIN agent_store'.saved
         /\ agent_store'.saved[agent_id] = agent_store.saved[agent_id]

\* C37: approve resumes an investigation only if the stored agent state is
\* awaiting_approval and at most once per pause: for an agent id whose
\* stored state is completed or error, or for a second approve of the same
\* id, EXPLORE, VERIFY and SYNTHESIZE are not run again and the stored
\* result is not overwritten.
C37_ApproveOncePerPause == []C37_FromPause /\ [][C37_Kept]_vars

\* seq starts with pre
C38_IsPrefix(pre, seq) ==
  /\ Len(pre) <= Len(seq)
  /\ \A i \in 1..Len(pre) : seq[i] = pre[i]

\* C38: the audit log of an investigation is append-only across the pause:
\* the log stored for an agent id after start followed by approve has the
\* log stored at the pause (the OBSERVE and HYPOTHESIZE entries) as a
\* prefix, followed by the EXPLORE, VERIFY and SYNTHESIZE entries.
C38_StoredLogAppendOnly ==
  [][\A agent_id \in DOMAIN agent_store.saved :
       /\ agent_id \in DOMAIN agent_store'.saved
       /\ C38_IsPrefix(agent_store.saved[agent_id].logs,
                       agent_store'.saved[agent_id].logs)]_vars

\* the entries dequeue would return from list, in that order
C39_DequeueOrder(list) == [i \in 1..Len(list) |-> loads(reversed(list)[i])]

\* the stored entries are in enqueue order, the newest at the head
C39_InOrder(list) ==
  \A i, j \in 1..Len(list) :
    i < j => loads(list[i]).enqueued_at > loads(list[j]).enqueued_at

\* dequeue returned the oldest entry, and nothing from an empty queue
C39_Fifo ==
  dlq.last.op = "dequeue"
    => IF dlq.last.before = <<>>
       THEN dlq.last.result = <<>> /\ dlq.last.after = <<>>
       ELSE /\ dlq.last.result = SubSeq(C39_DequeueOrder(dlq.last.before), 1, 1)
            /\ C39_DequeueOrder(dlq.last.after) =
                 Tail(C39_DequeueOrder(dlq.last.before))

\* peek(n) returned the next n entries (all of them when fewer are queued)
C39_PeekNext ==
  dlq.last.op = "peek" /\ dlq.last.count >= 0
    => /\ dlq.last.after = dlq.last.before
       /\ dlq.last.result =
            SubSeq(C39_DequeueOrder(dlq.last.before), 1,
                   min(dlq.last.count, Len(dlq.last.before)))

\* a completed enqueue left at most DLQ_MAX_SIZE entries, the newest ones
C39_Bounded ==
  dlq.last.op = "enqueue"
    => /\ Len(dlq.last.after) = min(Len(dlq.last.before), DLQ_MAX_SIZE)
       /\ dlq.last.after = SubSeq(dlq.last.before, 1, Len(dlq.last.after))

\* C39: the dead letter queue is first-in first-out and bounded: dequeue
\* returns entries in the order they were enqueued, peek(n) returns without
\* removing them the next n entries in the order dequeue would return them,
\* dequeue on an empty queue returns nothing, and once an enqueue has
\* completed the queue holds at most DLQ_MAX_SIZE entries, the oldest being
\* the ones discarded.
C39_FifoBounded ==
  /\ C39_InOrder(dlq.list)
  /\ C39_Fifo
  /\ C39_PeekNext
  /\ C39_Bounded

====
